---- MODULE Spec2Model ----
(***************************************************************************)
(* A model of narou_download: the table-of-contents walk                   *)
(* (scraper.go, scrapeChapterList), the chapter fetch with retry           *)
(* (scraper.go, ScrapeChapterWithHTML), the file save with retry           *)
(* (app.go, saveTextFileWithRetry), the download orchestrator             *)
(* (app.go, downloadRensai) and the HTML converter (html_converter.go).    *)
(*                                                                         *)
(* Representation.  A URL is the sequence of its "/"-separated parts       *)
(* (strings.Split(url, "/")), each part a sequence of one-character        *)
(* strings.  Novel text is a sequence of tokens: a token is a tag          *)
(* ("<ruby>", "<rt>", ...), a line feed "\n" or a character.  The tokens   *)
(* "kan" and "kana" stand for one Han ideograph and one kana character,    *)
(* "BAR" for U+FF5C, "LQ" and "RQ" for U+300A and U+300B.                   *)
(***************************************************************************)
EXTENDS Integers, Sequences, FiniteSets, TLC

(***************************************************************************)
(* Bounds of the model.                                                    *)
(***************************************************************************)
\* the chapters of a work with plainly numbered chapter URLs
MaxChapters == 4

\* the chapters of a work with chapter URLs of another shape
MaxVariantChapters == 2

\* the index pages one walk reads
MaxVisits == 3

(***************************************************************************)
(* Program constants.                                                      *)
(***************************************************************************)
maxFailures == 3

maxRetries == 3

saveMaxRetries == 3

PacingSeconds == 10

SaveRetrySeconds == 2

BackoffUnitSeconds == 1

(***************************************************************************)
(* Sequences and strings.                                                  *)
(***************************************************************************)
Range(s) == {s[k] : k \in DOMAIN s}

Min(S) == CHOOSE x \in S : \A y \in S : x <= y

RECURSIVE StringsJoin(_, _)
StringsJoin(elems, sep) ==
    IF elems = <<>> THEN <<>>
    ELSE IF Len(elems) = 1 THEN elems[1]
    ELSE elems[1] \o sep \o StringsJoin(Tail(elems), sep)

HasPrefix(s, prefix) ==
    /\ Len(s) >= Len(prefix)
    /\ SubSeq(s, 1, Len(prefix)) = prefix

Contains(s, needle) ==
    \E k \in 1..(Len(s) + 1) :
        /\ k + Len(needle) - 1 <= Len(s)
        /\ SubSeq(s, k, k + Len(needle) - 1) = needle

Digits == {"0", "1", "2", "3", "4", "5", "6", "7", "8", "9"}

DigitChars == <<"0", "1", "2", "3", "4", "5", "6", "7", "8", "9">>

LowerChars ==
    <<"a", "b", "c", "d", "e", "f", "g", "h", "i", "j", "k", "l", "m",
      "n", "o", "p", "q", "r", "s", "t", "u", "v", "w", "x", "y", "z">>

UpperChars ==
    <<"A", "B", "C", "D", "E", "F", "G", "H", "I", "J", "K", "L", "M",
      "N", "O", "P", "Q", "R", "S", "T", "U", "V", "W", "X", "Y", "Z">>

IsDigit(c) == c \in Digits

IsLower(c) == c \in Range(LowerChars)

ToUpperChar(c) ==
    IF IsLower(c)
    THEN UpperChars[CHOOSE k \in DOMAIN LowerChars : LowerChars[k] = c]
    ELSE c

ToUpper(s) == [k \in DOMAIN s |-> ToUpperChar(s[k])]

\* fmt.Sprintf("%d", n) for n >= 0
RECURSIVE SprintfD(_)
SprintfD(n) ==
    IF n < 10 THEN <<DigitChars[n + 1]>>
    ELSE SprintfD(n \div 10) \o <<DigitChars[(n % 10) + 1]>>

\* the longest prefix of s made of digits: what ([0-9]+) captures
RECURSIVE LeadingDigits(_)
LeadingDigits(s) ==
    IF s = <<>> \/ ~IsDigit(Head(s)) THEN <<>>
    ELSE <<Head(s)>> \o LeadingDigits(Tail(s))

(***************************************************************************)
(* URLs.                                                                   *)
(***************************************************************************)
Https == <<"h", "t", "t", "p", "s", ":">>

HostNcode ==
    <<"n", "c", "o", "d", "e", ".", "s", "y", "o", "s", "e", "t", "u",
      ".", "c", "o", "m">>

HostNovel18 ==
    <<"n", "o", "v", "e", "l", "1", "8", ".", "s", "y", "o", "s", "e", "t",
      "u", ".", "c", "o", "m">>

\* a part that is n[0-9]+[a-z]+ from its first to its last character
IsWorkCodePart(p) ==
    /\ Len(p) >= 3
    /\ p[1] = "n"
    /\ \E k \in 2..(Len(p) - 1) :
          /\ \A j \in 2..k : IsDigit(p[j])
          /\ \A j \in (k + 1)..Len(p) : IsLower(p[j])

\* the fallback of extractNovelCodeFromURL: "n" then lower-case letters or digits
IsLooseCodePart(p) ==
    /\ Len(p) > 1
    /\ p[1] = "n"
    /\ \A j \in 2..Len(p) : IsLower(p[j]) \/ IsDigit(p[j])

Unknown == <<"U", "N", "K", "N", "O", "W", "N">>

\* regexp `/n([0-9]+[a-z]+)/`: a whole part between two slashes
extractNovelCodeFromURL(url) ==
    LET hits == {k \in 2..(Len(url) - 1) : IsWorkCodePart(url[k])}
        loose == {k \in DOMAIN url : IsLooseCodePart(url[k])}
    IN  IF hits # {} THEN <<"N">> \o ToUpper(Tail(url[Min(hits)]))
        ELSE IF loose # {} THEN ToUpper(url[Min(loose)])
        ELSE Unknown

\* regexp `/n[0-9]+[a-z]+/([0-9]+)/?`, then the part-by-part fallback
extractEpisodeNumberFromURL(url) ==
    LET hits == {k \in 2..(Len(url) - 1) :
                    /\ IsWorkCodePart(url[k])
                    /\ LeadingDigits(url[k + 1]) # <<>>}
        loose == {k \in 1..(Len(url) - 1) :
                    /\ Len(url[k]) > 1
                    /\ url[k][1] = "n"
                    /\ url[k + 1] # <<>>
                    /\ \A j \in DOMAIN url[k + 1] : IsDigit(url[k + 1][j])}
    IN  IF hits # {} THEN LeadingDigits(url[Min(hits) + 1])
        ELSE IF loose # {} THEN url[Min(loose) + 1]
        ELSE <<"1">>

generateFileName(novelCode, episodeNumber) ==
    novelCode \o <<"-">> \o episodeNumber

\* variant: the parsed number is used as it is
ParsedEpisodeNumber(url, idx) == extractEpisodeNumberFromURL(url)

\* the episode number downloadRensai uses for the chapter at 0-based index idx
EpisodeNumberAt(url, idx) ==
    LET episodeNumber == extractEpisodeNumberFromURL(url)
    IN  IF episodeNumber = <<>> \/ (idx > 0 /\ episodeNumber = <<"1">>)
        THEN SprintfD(idx + 1)
        ELSE episodeNumber

\* paths under savePath: filepath.Join(savePath, ...)
TxtPath(fileName) == <<fileName \o <<".", "t", "x", "t">>>>

HtmlPath(episodeNumber) ==
    <<<<"h", "t", "m", "l">>, episodeNumber \o <<".", "h", "t", "m", "l">>>>

AllName == <<"a", "l", "l">>

(***************************************************************************)
(* Text conversion (app.go).                                               *)
(***************************************************************************)
NL == "\n"

CR == "\r"

Spaces == {" ", "\t", CR, NL}

HanTokens == {"kan"}

NoNewline(t, from, to) == \A k \in from..to : t[k] # NL

\* `<ruby>(.*?)<rp>.*?</rp><rt>(.*?)</rt><rp>.*?</rp></ruby>`: the positions
\* of <ruby>, first <rp>, first </rp>, </rt> and second </rp> of the
\* leftmost match, each lazy group as short as it can be
RpCloseSecond(t, c) ==
    {d \in (c + 2)..(Len(t) - 1) :
        /\ t[d] = "</rp>"
        /\ t[d + 1] = "</ruby>"
        /\ NoNewline(t, c + 2, d)}

RpRtClose(t, b) ==
    {c \in (b + 2)..(Len(t) - 1) :
        /\ t[c] = "</rt>"
        /\ t[c + 1] = "<rp>"
        /\ NoNewline(t, b + 2, c)
        /\ RpCloseSecond(t, c) # {}}

RpCloseFirst(t, a) ==
    {b \in (a + 1)..(Len(t) - 1) :
        /\ t[b] = "</rp>"
        /\ t[b + 1] = "<rt>"
        /\ NoNewline(t, a + 1, b)
        /\ RpRtClose(t, b) # {}}

RpOpenFirst(t, s) ==
    {a \in (s + 1)..Len(t) :
        /\ t[a] = "<rp>"
        /\ NoNewline(t, s + 1, a)
        /\ RpCloseFirst(t, a) # {}}

RpRubyStart(t) ==
    {s \in DOMAIN t : t[s] = "<ruby>" /\ RpOpenFirst(t, s) # {}}

\* `<ruby>(.*?)<rt>(.*?)</rt></ruby>`
SimpleRtClose(t, a) ==
    {b \in (a + 1)..(Len(t) - 1) :
        /\ t[b] = "</rt>"
        /\ t[b + 1] = "</ruby>"
        /\ NoNewline(t, a + 1, b)}

SimpleRtOpen(t, s) ==
    {a \in (s + 1)..Len(t) :
        /\ t[a] = "<rt>"
        /\ NoNewline(t, s + 1, a)
        /\ SimpleRtClose(t, a) # {}}

SimpleRubyStart(t) ==
    {s \in DOMAIN t : t[s] = "<ruby>" /\ SimpleRtOpen(t, s) # {}}

formatAozoraRuby(baseText, ruby) ==
    LET isKanjiOnly ==
            /\ baseText # <<>>
            /\ \A k \in DOMAIN baseText : baseText[k] \in HanTokens
    IN  IF isKanjiOnly
        THEN baseText \o <<"LQ">> \o ruby \o <<"RQ">>
        ELSE <<"BAR">> \o baseText \o <<"LQ">> \o ruby \o <<"RQ">>

RECURSIVE ReplaceRpRuby(_)
ReplaceRpRuby(t) ==
    IF RpRubyStart(t) = {} THEN t
    ELSE LET s == Min(RpRubyStart(t))
             a == Min(RpOpenFirst(t, s))
             b == Min(RpCloseFirst(t, a))
             c == Min(RpRtClose(t, b))
             d == Min(RpCloseSecond(t, c))
         IN  SubSeq(t, 1, s - 1)
                 \o formatAozoraRuby(SubSeq(t, s + 1, a - 1),
                                     SubSeq(t, b + 2, c - 1))
                 \o ReplaceRpRuby(SubSeq(t, d + 2, Len(t)))

RECURSIVE ReplaceSimpleRuby(_)
ReplaceSimpleRuby(t) ==
    IF SimpleRubyStart(t) = {} THEN t
    ELSE LET s == Min(SimpleRubyStart(t))
             a == Min(SimpleRtOpen(t, s))
             b == Min(SimpleRtClose(t, a))
         IN  SubSeq(t, 1, s - 1)
                 \o formatAozoraRuby(SubSeq(t, s + 1, a - 1),
                                     SubSeq(t, a + 1, b - 1))
                 \o ReplaceSimpleRuby(SubSeq(t, b + 2, Len(t)))

convertRubyToAozora(content) == ReplaceSimpleRuby(ReplaceRpRuby(content))

\* strings.Split(content, "\n")
RECURSIVE SplitLines(_)
SplitLines(t) ==
    LET nls == {k \in DOMAIN t : t[k] = NL}
    IN  IF nls = {} THEN <<t>>
        ELSE <<SubSeq(t, 1, Min(nls) - 1)>>
                 \o SplitLines(SubSeq(t, Min(nls) + 1, Len(t)))

IsBlank(line) == \A k \in DOMAIN line : line[k] \in Spaces

\* the loop that writes every line followed by "\n", blank lines emptied
RECURSIVE WriteLines(_)
WriteLines(lines) ==
    IF lines = <<>> THEN <<>>
    ELSE (IF IsBlank(Head(lines)) THEN <<>> ELSE Head(lines))
             \o <<NL>> \o WriteLines(Tail(lines))

formatChapterContentForCombined(chapterTitle, content) ==
    convertRubyToAozora(chapterTitle) \o <<NL, NL>>
        \o WriteLines(SplitLines(convertRubyToAozora(content)))

formatChapterContent(novelTitle, author, chapterTitle, content) ==
    (IF chapterTitle # <<>>
     THEN convertRubyToAozora(chapterTitle)
     ELSE convertRubyToAozora(novelTitle))
        \o <<NL, NL>>
        \o WriteLines(SplitLines(convertRubyToAozora(content)))

CombinedSeparator ==
    <<NL, NL, "-", "-", "-", "-", "-", "-", "-", "-", "-", "-", "-", "-",
      "-", "-", "-", "-", NL, NL, NL>>

\* the combinedBuilder of downloadRensai
CombinedContent(title, author, allContents) ==
    convertRubyToAozora(title) \o <<NL>>
        \o convertRubyToAozora(author) \o <<NL, NL, NL>>
        \o StringsJoin(allContents, CombinedSeparator)

\* saveTextFile: the line endings of the text handed to the encoder
RECURSIVE ConvertLineEnding(_, _)
ConvertLineEnding(content, lineEnding) ==
    IF lineEnding # "CR+LF" \/ content = <<>> THEN content
    ELSE (IF Head(content) = NL THEN <<CR, NL>> ELSE <<Head(content)>>)
             \o ConvertLineEnding(Tail(content), lineEnding)

(***************************************************************************)
(* Errors are records; a wrapped error keeps its cause.                    *)
(***************************************************************************)
NoError == [kind |-> "nil"]

ErrTransport == [kind |-> "transport"]

ErrNoContent == [kind |-> "contentNotFound"]

ErrNoBody == [kind |-> "bodyNotFound"]

ErrEncode == [kind |-> "shiftJISEncode"]

ErrWrite == [kind |-> "writeFile"]

ErrNoEpisodes == [kind |-> "noEpisodes"]

ErrScrapeExhausted(url, last) ==
    [kind |-> "scrapeRetriesExhausted", count |-> maxRetries,
     url |-> url, last |-> last]

ErrSaveExhausted(title, last) ==
    [kind |-> "saveRetriesExhausted", count |-> saveMaxRetries,
     title |-> title, last |-> last]

ErrTooManyFailures(last) ==
    [kind |-> "tooManyFailures", count |-> maxFailures, last |-> last]

ErrCombinedSave(cause) == [kind |-> "combinedSave", cause |-> cause]

(***************************************************************************)
(* The remote site as the chapter pages answer.                            *)
(***************************************************************************)
WorkCode == <<"n", "1", "2", "a", "b">>

\* what extractContent returns for the page at url when it finds text
RemoteContent(url) ==
    <<"body">> \o url[Len(url) - 1]
        \o <<NL, " ", NL, "<ruby>", "kana", "<rt>", "yomi", "</rt>", "</ruby>">>

RemoteRawHTML(url) == <<"<div>">> \o url[Len(url) - 1] \o <<"</div>">>

RemoteFullPageHTML(url) == <<"<html>">> \o url[Len(url) - 1] \o <<"</html>">>

\* the results of one scrapeChapterWithHTMLOnce(url)
OnceResults(url) ==
    { [content |-> RemoteContent(url), rawHTML |-> RemoteRawHTML(url),
       fullPageHTML |-> RemoteFullPageHTML(url), err |-> NoError],
      [content |-> <<>>, rawHTML |-> <<>>, fullPageHTML |-> <<>>,
       err |-> ErrTransport],
      [content |-> <<>>, rawHTML |-> <<>>, fullPageHTML |-> <<>>,
       err |-> ErrNoContent],
      [content |-> RemoteContent(url), rawHTML |-> <<>>,
       fullPageHTML |-> <<>>, err |-> ErrNoBody] }

(***************************************************************************)
(* The inputs of downloadRensai.                                           *)
(***************************************************************************)
NewChapter(title, url) ==
    [Title |-> title, URL |-> url, Content |-> <<>>, RawHTML |-> <<>>,
     FullPageHTML |-> <<>>, RetryCount |-> 0, Failed |-> FALSE]

ChapterTitle(k) == <<"ep">> \o SprintfD(k)

\* https://ncode.syosetu.com/n12ab/<k>/
NumberedURL(k) == <<Https, <<>>, HostNcode, WorkCode, SprintfD(k), <<>>>>

\* https://ncode.syosetu.com/n12ab//<k>/ : a relative link joined to a base
\* URL that ends with a slash
RelativeURL(k) ==
    <<Https, <<>>, HostNcode, WorkCode, <<>>, SprintfD(k), <<>>>>

Schemes == {"numbered", "relative", "descending"}

SchemeURL(scheme, k, n) ==
    CASE scheme = "numbered" -> NumberedURL(k)
      [] scheme = "relative" -> RelativeURL(k)
      [] scheme = "descending" -> NumberedURL(n + 1 - k)

SchemeTitle(scheme) ==
    CASE scheme = "numbered" -> <<"T">>
      [] scheme = "relative" ->
            <<"<ruby>", "kan", "kana", "<rp>", "(", "</rp>", "<rt>", "yomi",
              "</rt>", "<rp>", ")", "</rp>", "</ruby>", "T">>
      [] scheme = "descending" -> <<"T", "T">>

SchemeAuthor(scheme) ==
    CASE scheme = "numbered" -> <<"A">>
      [] scheme = "relative" ->
            <<"<ruby>", "kan", "<rt>", "yomi", "</rt>", "</ruby>">>
      [] scheme = "descending" -> <<"A", "A">>

Work(scheme, n) ==
    [PageType |-> "rensai",
     Title |-> SchemeTitle(scheme),
     Author |-> SchemeAuthor(scheme),
     Chapters |-> [k \in 1..n |->
                     NewChapter(ChapterTitle(k), SchemeURL(scheme, k, n))],
     IndexPagesHTML |-> <<>>,
     Error |-> NoError]

Works ==
    {Work("numbered", n) : n \in 0..MaxChapters}
        \cup {Work(scheme, n) : scheme \in Schemes \ {"numbered"},
                                 n \in 1..MaxVariantChapters}

DefaultFormat == [lineEnding |-> "CR+LF", encoding |-> "UTF-8"]

OtherFormat == [lineEnding |-> "LF", encoding |-> "Shift-JIS"]

\* the options the front end lets through: HTML or TXT is selected.  The
\* format is the default one when HTML is selected, the other one when not.
OptionSets ==
    {o \in [createHtml : BOOLEAN, createTxt : BOOLEAN,
            createCombined : BOOLEAN, format : {DefaultFormat, OtherFormat}] :
        /\ o.createHtml \/ o.createTxt
        /\ o.format = IF o.createHtml THEN DefaultFormat ELSE OtherFormat}

DefaultOptions ==
    [createHtml |-> TRUE, createTxt |-> TRUE, createCombined |-> FALSE,
     format |-> DefaultFormat]

EmptyResult ==
    [PageType |-> "", Title |-> <<>>, Author |-> <<>>, Chapters |-> <<>>,
     IndexPagesHTML |-> <<>>, Error |-> NoError]

(***************************************************************************)
(* State.                                                                  *)
(***************************************************************************)
VARIABLES
    result,             \* the ScrapeResult of the request
    opts,               \* createHtml, createTxt, createCombined, format
    disk,               \* the files under savePath the run has seen or written
    pc,                 \* where downloadRensai is
    i,                  \* the loop index of downloadRensai (0-based)
    failedChapters,     \* the running failure counter
    allChapterContents, \* the accumulator of the combined file
    retry,              \* the loop index of ScrapeChapterWithHTML
    lastErr,            \* its lastErr
    attempts,           \* scrapeChapterWithHTMLOnce calls of the current call
    once,               \* what the last scrapeChapterWithHTMLOnce returned
    scraped,            \* what the last ScrapeChapterWithHTML returned
    fetchLog,           \* the calls of ScrapeChapterWithHTML: index and outcome
    fetchSleeps,        \* the sleeps of the current ScrapeChapterWithHTML call
    paced,              \* the pacing sleep was done since the last fetch returned
    saveFor,            \* "chapter" or "all": who called saveTextFileWithRetry
    saveArgs,           \* its title and content
    saveRetry,          \* its loop index
    saveLastErr,        \* its lastErr
    saveAttempts,       \* saveTextFile calls of the current call
    saveOnce,           \* what the last saveTextFile returned
    saveSleeps,         \* the sleeps of the current call
    saveErr,            \* what the last saveTextFileWithRetry returned
    saveCalls,          \* the titles saveTextFileWithRetry was called with
    progress,           \* the last "progress" value emitted
    ret,                \* what downloadRensai returned
    tocPc,              \* where scrapeChapterList is
    site,               \* the index pages of the remote site
    pageDoc,            \* the index page the walk is on
    visited,            \* the index pages the walk has read, in order
    requests,           \* the URLs fetchPage was called with, in order
    tocErr,             \* what scrapeChapterList returned
    h,                  \* the HTMLConverter under use
    convLog             \* the calls made on it, with what they returned

dlVars ==
    <<result, opts, disk, pc, i, failedChapters, allChapterContents, retry,
      lastErr, attempts, once, scraped, fetchLog, fetchSleeps, paced,
      saveFor, saveArgs, saveRetry, saveLastErr, saveAttempts, saveOnce,
      saveSleeps, saveErr, saveCalls, progress, ret>>

tocVars == <<tocPc, site, pageDoc, visited, requests, tocErr>>

convVars == <<h, convLog>>

vars == <<dlVars, tocVars, convVars>>

scrapeVars == <<retry, lastErr, attempts, once, scraped, fetchSleeps>>

saveVars ==
    <<saveFor, saveArgs, saveRetry, saveLastErr, saveAttempts, saveOnce,
      saveSleeps, saveErr>>

NotReturned == [kind |-> "running"]

NoScrape ==
    [content |-> <<>>, rawHTML |-> <<>>, fullPageHTML |-> <<>>,
     err |-> NotReturned]

NoSaveArgs == [title |-> <<>>, content |-> <<>>]

NoDoc == [anchors |-> <<>>, next |-> [exists |-> FALSE, href |-> <<>>]]

(***************************************************************************)
(* The files under savePath.  A file the run has neither looked at nor     *)
(* written is not in disk; the first os.Stat of it finds it there or not.  *)
(***************************************************************************)
OldFile == [exists |-> TRUE, written |-> FALSE, encoding |-> "", text |-> <<>>]

NoFile == [exists |-> FALSE, written |-> FALSE, encoding |-> "", text |-> <<>>]

\* the entries os.Stat(path) can find
StatResults(d, path) ==
    IF path \in DOMAIN d THEN {d[path]} ELSE {OldFile, NoFile}

Seen(d, path, entry) ==
    [p \in DOMAIN d \cup {path} |-> IF p = path THEN entry ELSE d[p]]

\* os.WriteFile(path, data)
WriteFile(d, path, encoding, text) ==
    Seen(d, path, [exists |-> TRUE, written |-> TRUE,
                   encoding |-> encoding, text |-> text])

\* The directory html/ is written by no code of this version: it is there
\* from an earlier version, with a file for every chapter, or it is not.
\* The text files are found as the run looks for them.
InitialDisks(res, o) ==
    LET htmlPaths == {HtmlPath(EpisodeNumberAt(res.Chapters[k].URL, k - 1)) :
                         k \in DOMAIN res.Chapters}
    IN  {[p \in htmlPaths |-> entry] :
            entry \in IF o.createHtml THEN {OldFile, NoFile} ELSE {NoFile}}

\* the errors one saveTextFile call can end with
SaveTextFileResults(encoding) ==
    {NoError, ErrWrite} \cup (IF encoding = "Shift-JIS" THEN {ErrEncode} ELSE {})

(***************************************************************************)
(* downloadRensai (app.go) with the two retry loops it calls.              *)
(***************************************************************************)
\* no call of ScrapeChapterWithHTML is under way: its locals do not exist
ScrapeIdle ==
    /\ retry = 0
    /\ lastErr = NoError
    /\ attempts = 0
    /\ once = NoScrape
    /\ scraped = NoScrape
    /\ fetchSleeps = <<>>

\* no call of saveTextFileWithRetry is under way
SaveIdle ==
    /\ saveFor = "none"
    /\ saveArgs = NoSaveArgs
    /\ saveRetry = 0
    /\ saveLastErr = NoError
    /\ saveAttempts = 0
    /\ saveOnce = NotReturned
    /\ saveSleeps = <<>>
    /\ saveErr = NotReturned

ScrapeReset ==
    /\ retry' = 0
    /\ lastErr' = NoError
    /\ attempts' = 0
    /\ once' = NoScrape
    /\ scraped' = NoScrape
    /\ fetchSleeps' = <<>>

SaveReset ==
    /\ saveFor' = "none"
    /\ saveArgs' = NoSaveArgs
    /\ saveRetry' = 0
    /\ saveLastErr' = NoError
    /\ saveAttempts' = 0
    /\ saveOnce' = NotReturned
    /\ saveSleeps' = <<>>
    /\ saveErr' = NotReturned

TocIdle ==
    /\ tocPc = "idle"
    /\ site = <<>>
    /\ pageDoc = NoDoc
    /\ visited = <<>>
    /\ requests = <<>>
    /\ tocErr = NotReturned

\* no converter is under use
NoConverter ==
    [text |-> <<>>,
     stripDecorationTag |-> FALSE,
     illustCurrentURL |-> <<>>,
     illustGrepPattern |-> "nil"]

ConvIdle ==
    /\ h = NoConverter
    /\ convLog = <<>>

Init ==
    /\ result \in Works
    /\ opts \in OptionSets
    /\ disk \in InitialDisks(result, opts)
    /\ pc = "entry"
    /\ i = 0
    /\ failedChapters = 0
    /\ allChapterContents = <<>>
    /\ ScrapeIdle
    /\ fetchLog = <<>>
    /\ paced = TRUE
    /\ SaveIdle
    /\ saveCalls = <<>>
    /\ progress = 0
    /\ ret = NotReturned
    /\ TocIdle
    /\ ConvIdle

totalChapters == Len(result.Chapters)

\* variant: the chapter in hand counts as done, on a scale of 100
ProgressWithCurrent(idx, total) == ((idx + 1) * 100) \div total

\* int(float64(idx)/float64(total)*80)
ProgressAt(idx, total) == (idx * 80) \div total

\* an entry of fetchLog: the call for the chapter at idx, and how it ended
FetchCalled(idx) == [idx |-> idx, outcome |-> "pending"]

FetchReturned(log, err) ==
    [log EXCEPT ![Len(log)].outcome = IF err = NoError THEN "ok" ELSE "failed"]

\* variant: a failure counts twice
CountFailureTwice(n) == n + 2

\* failedChapters++
CountFailure(n) == n + 1

\* variant: a success leaves the counter as it is
KeepFailures(n) == n

\* failedChapters = 0
ResetFailures(n) == 0

\* variant: the body is put in front of the accumulator
PrependContent(contents, body) == <<body>> \o contents

\* allChapterContents = append(allChapterContents, chapterContentForCombined)
AppendContent(contents, body) == Append(contents, body)

\* variant: the delay grows with the retry
GrowingSaveDelay(r) == r * SaveRetrySeconds

\* time.Sleep(2 * time.Second) before the retry r of a save
SaveDelay(r) == SaveRetrySeconds

\* variant: the breaker trips one failure late
BreakerTrippedLate(n) == n > maxFailures

\* failedChapters >= maxFailures
BreakerTripped(n) == n >= maxFailures

\* variant: the loop makes one turn more
OneMoreAttempt(r) == r <= maxRetries

\* retry < maxRetries
MoreAttempts(r) == r < maxRetries

\* variant: every sleep is one unit
FlatBackoffDelay(r) == BackoffUnitSeconds

\* time.Duration(retry) * time.Second
BackoffDelay(r) == r * BackoffUnitSeconds

MoreSaveAttempts(r) == r < saveMaxRetries

\* the two results of isFileAlreadySaved
isFileAlreadySaved(htmlEntry, txtEntry, createHtml, createTxt) ==
    [htmlExists |-> IF createHtml THEN htmlEntry.exists ELSE TRUE,
     txtExists |-> IF createTxt THEN txtEntry.exists ELSE TRUE]

shouldSkipEpisode(htmlEntry, txtEntry, createHtml, createTxt) ==
    LET saved == isFileAlreadySaved(htmlEntry, txtEntry, createHtml, createTxt)
    IN  saved.htmlExists /\ saved.txtExists

\* the file name of the chapter at 0-based index idx
ChapterFileName(res, idx) ==
    generateFileName(extractNovelCodeFromURL(res.Chapters[1].URL),
                     EpisodeNumberAt(res.Chapters[idx + 1].URL, idx))

\* the for statement goes to the next chapter, or ends
NextChapter ==
    /\ i' = i + 1
    /\ pc' = IF i + 1 < totalChapters THEN "chapter" ELSE "afterLoop"

\* the call of saveTextFileWithRetry(savePath, title, content, ...)
CallSave(who, title, content) ==
    /\ saveFor' = who
    /\ saveArgs' = [title |-> title, content |-> content]
    /\ saveRetry' = 0
    /\ saveLastErr' = NoError
    /\ saveAttempts' = 0
    /\ saveOnce' = NotReturned
    /\ saveSleeps' = <<>>
    /\ saveErr' = NotReturned
    /\ saveCalls' = Append(saveCalls, title)
    /\ pc' = "save"

\* lines 119-141
Enter ==
    /\ pc = "entry"
    /\ IF totalChapters = 0
       THEN /\ ret' = ErrNoEpisodes
            /\ pc' = "done"
       ELSE /\ ret' = ret
            /\ pc' = "chapter"
    /\ i' = 0
    /\ failedChapters' = 0
    /\ allChapterContents' = <<>>
    /\ UNCHANGED <<result, opts, disk, scrapeVars, fetchLog, paced, saveVars,
                   saveCalls, progress, tocVars, convVars>>

\* lines 143-164: the head of the loop body, up to the call of
\* ScrapeChapterWithHTML
BeginChapter ==
    /\ pc = "chapter"
    /\ LET chapter == result.Chapters[i + 1]
           episodeNumber == EpisodeNumberAt(chapter.URL, i)
           chapterFileName == ChapterFileName(result, i)
           htmlSeen == IF opts.createHtml
                       THEN StatResults(disk, HtmlPath(episodeNumber))
                       ELSE {NoFile}
           txtSeen == IF opts.createTxt
                      THEN StatResults(disk, TxtPath(chapterFileName))
                      ELSE {NoFile}
       IN  \E htmlEntry \in htmlSeen, txtEntry \in txtSeen :
              /\ disk' =
                    LET d1 == IF opts.createHtml
                              THEN Seen(disk, HtmlPath(episodeNumber), htmlEntry)
                              ELSE disk
                    IN  IF opts.createTxt
                        THEN Seen(d1, TxtPath(chapterFileName), txtEntry)
                        ELSE d1
              /\ IF shouldSkipEpisode(htmlEntry, txtEntry,
                                      opts.createHtml, opts.createTxt)
                 THEN /\ NextChapter
                      /\ UNCHANGED <<scrapeVars, fetchLog>>
                 ELSE /\ pc' = "scrape"
                      /\ i' = i
                      /\ ScrapeReset
                      /\ fetchLog' = Append(fetchLog, FetchCalled(i))
    /\ progress' = ProgressAt(i, totalChapters)
    /\ UNCHANGED <<result, opts, failedChapters, allChapterContents, paced,
                   saveVars, saveCalls, ret, tocVars, convVars>>

\* scraper.go 407-426: one turn of the loop of ScrapeChapterWithHTML, and its
\* return when the turn is the last
ScrapeAttempt ==
    /\ pc = "scrape"
    /\ MoreAttempts(retry)
    /\ LET url == result.Chapters[i + 1].URL
       IN  \E r \in OnceResults(url) :
              /\ attempts' = attempts + 1
              /\ once' = r
              /\ fetchSleeps' = IF retry > 0
                                THEN Append(fetchSleeps, BackoffDelay(retry))
                                ELSE fetchSleeps
              /\ IF r.err = NoError
                 THEN /\ scraped' = r
                      /\ pc' = "scrapeReturned"
                      /\ paced' = FALSE
                      /\ fetchLog' = FetchReturned(fetchLog, NoError)
                      /\ UNCHANGED <<retry, lastErr>>
                 ELSE /\ lastErr' = r.err
                      /\ retry' = retry + 1
                      /\ IF MoreAttempts(retry + 1)
                         THEN UNCHANGED <<scraped, pc, paced, fetchLog>>
                         ELSE /\ scraped' =
                                    [content |-> <<>>, rawHTML |-> <<>>,
                                     fullPageHTML |-> <<>>,
                                     err |-> ErrScrapeExhausted(url, lastErr')]
                              /\ pc' = "scrapeReturned"
                              /\ paced' = FALSE
                              /\ fetchLog' = FetchReturned(fetchLog, r.err)
    /\ UNCHANGED <<result, opts, disk, i, failedChapters, allChapterContents,
                   saveVars, saveCalls, progress, ret, tocVars, convVars>>

\* lines 165-174
ChapterFailed ==
    /\ pc = "scrapeReturned"
    /\ scraped.err # NoError
    /\ failedChapters' = CountFailure(failedChapters)
    /\ IF BreakerTripped(failedChapters')
       THEN /\ ret' = ErrTooManyFailures(scraped.err)
            /\ pc' = "done"
            /\ i' = i
       ELSE /\ ret' = ret
            /\ NextChapter
    /\ ScrapeReset
    /\ UNCHANGED <<result, opts, disk, allChapterContents, fetchLog, paced,
                   saveVars, saveCalls, progress, tocVars, convVars>>

\* lines 176-200, up to the call of saveTextFileWithRetry
ChapterFetched ==
    /\ pc = "scrapeReturned"
    /\ scraped.err = NoError
    /\ failedChapters' = ResetFailures(failedChapters)
    /\ result' = [result EXCEPT
                    !.Chapters[i + 1].Content = scraped.content,
                    !.Chapters[i + 1].RawHTML = scraped.rawHTML,
                    !.Chapters[i + 1].FullPageHTML = scraped.fullPageHTML]
    /\ allChapterContents' =
          AppendContent(allChapterContents,
                        formatChapterContentForCombined(
                            result.Chapters[i + 1].Title, scraped.content))
    /\ paced' = IF i < totalChapters - 1 THEN TRUE ELSE paced
    /\ IF opts.createTxt
       THEN /\ CallSave("chapter", ChapterFileName(result, i),
                        formatChapterContent(result.Title, result.Author,
                                             result.Chapters[i + 1].Title,
                                             scraped.content))
            /\ i' = i
       ELSE /\ NextChapter
            /\ UNCHANGED <<saveVars, saveCalls>>
    /\ ScrapeReset
    /\ UNCHANGED <<opts, disk, fetchLog, progress, ret, tocVars, convVars>>

\* lines 373-392: one turn of the loop of saveTextFileWithRetry (with the
\* saveTextFile it calls), and its return when the turn is the last.  The
\* bytes are left to the encoder: a file holds the text after the line-ending
\* step and the name of its encoding.  A failed write leaves the file as it was.
SaveAttempt ==
    /\ pc = "save"
    /\ MoreSaveAttempts(saveRetry)
    /\ \E e \in SaveTextFileResults(opts.format.encoding) :
          /\ saveAttempts' = saveAttempts + 1
          /\ saveOnce' = e
          /\ saveSleeps' = IF saveRetry > 0
                           THEN Append(saveSleeps, SaveDelay(saveRetry))
                           ELSE saveSleeps
          /\ IF e = NoError
             THEN /\ disk' = WriteFile(disk, TxtPath(saveArgs.title),
                                       opts.format.encoding,
                                       ConvertLineEnding(saveArgs.content,
                                                         opts.format.lineEnding))
                  /\ saveErr' = NoError
                  /\ pc' = "saveReturned"
                  /\ UNCHANGED <<saveRetry, saveLastErr>>
             ELSE /\ saveLastErr' = e
                  /\ saveRetry' = saveRetry + 1
                  /\ disk' = disk
                  /\ IF MoreSaveAttempts(saveRetry + 1)
                     THEN UNCHANGED <<saveErr, pc>>
                     ELSE /\ saveErr' = ErrSaveExhausted(saveArgs.title,
                                                         saveLastErr')
                          /\ pc' = "saveReturned"
    /\ UNCHANGED <<result, opts, i, failedChapters, allChapterContents,
                   scrapeVars, fetchLog, paced, saveFor, saveArgs, saveCalls,
                   progress, ret, tocVars, convVars>>

\* lines 197-200: the chapter save has returned; its error is only logged
ChapterSaved ==
    /\ pc = "saveReturned"
    /\ saveFor = "chapter"
    /\ NextChapter
    /\ SaveReset
    /\ UNCHANGED <<result, opts, disk, failedChapters, allChapterContents,
                   scrapeVars, fetchLog, paced, saveCalls, progress, ret,
                   tocVars, convVars>>

\* variant: the accumulator is not looked at
WantCombinedAlways(createCombined, contents) == createCombined

\* createCombined && len(allChapterContents) > 0
WantCombined(createCombined, contents) == createCombined /\ Len(contents) > 0

\* lines 224-254, up to the call of saveTextFileWithRetry for the combined file
Finish ==
    /\ pc = "afterLoop"
    /\ IF WantCombined(opts.createCombined, allChapterContents) /\ opts.createTxt
       THEN /\ CallSave("all", AllName,
                        CombinedContent(result.Title, result.Author,
                                        allChapterContents))
            /\ progress' = 90
            /\ ret' = ret
       ELSE /\ progress' = 100
            /\ ret' = NoError
            /\ pc' = "done"
            /\ UNCHANGED <<saveVars, saveCalls>>
    /\ UNCHANGED <<result, opts, disk, i, failedChapters, allChapterContents,
                   scrapeVars, fetchLog, paced, tocVars, convVars>>

\* lines 243-254: the combined save has returned
CombinedSaved ==
    /\ pc = "saveReturned"
    /\ saveFor = "all"
    /\ IF saveErr # NoError
       THEN /\ ret' = ErrCombinedSave(saveErr)
            /\ progress' = progress
       ELSE /\ ret' = NoError
            /\ progress' = 100
    /\ pc' = "done"
    /\ SaveReset
    /\ UNCHANGED <<result, opts, disk, i, failedChapters, allChapterContents,
                   scrapeVars, fetchLog, paced, saveCalls, tocVars, convVars>>

Next ==
    \/ Enter
    \/ BeginChapter
    \/ ScrapeAttempt
    \/ ChapterFailed
    \/ ChapterFetched
    \/ SaveAttempt
    \/ ChapterSaved
    \/ Finish
    \/ CombinedSaved

Spec == Init /\ [][Next]_vars

(***************************************************************************)
(* Properties of downloadRensai and its two retry loops, under Spec.       *)
(***************************************************************************)
\* the calls of ScrapeChapterWithHTML whose result the loop has acted on
Handled ==
    IF pc \in {"scrape", "scrapeReturned"}
    THEN SubSeq(fetchLog, 1, Len(fetchLog) - 1)
    ELSE fetchLog

\* the number of failed calls at the end of log
RECURSIVE TrailingFailed(_)
TrailingFailed(log) ==
    IF log = <<>> \/ log[Len(log)].outcome # "failed" THEN 0
    ELSE 1 + TrailingFailed(SubSeq(log, 1, Len(log) - 1))

WithOutcome(log, outcome) == {k \in DOMAIN log : log[k].outcome = outcome}

\* the calls k .. k + maxFailures - 1 of log all failed
FailedRunAt(log, k) ==
    /\ k + maxFailures - 1 <= Len(log)
    /\ \A j \in k..(k + maxFailures - 1) : log[j].outcome = "failed"

Aborted == pc = "done" /\ ret.kind = "tooManyFailures"

OnceErrors == {ErrTransport, ErrNoContent, ErrNoBody}

\* C1: whenever maxFailures (3) calls of ScrapeChapterWithHTML fail one after
\* the other, they are the last calls of the run: the third has just
\* returned, or downloadRensai has returned the error that names the count 3
\* and carries the error of that third call, the loop index is still at that
\* chapter, no save is under way and no chapter but the successfully fetched
\* ones was ever handed to a save.  Successes before the three do not matter.
C1_BreakerAbortsAtThirdFailure ==
    \A k \in DOMAIN fetchLog :
        FailedRunAt(fetchLog, k) =>
            /\ k + maxFailures - 1 = Len(fetchLog)
            /\ \/ pc = "scrapeReturned"
               \/ /\ Aborted
                  /\ ret.count = maxFailures
                  /\ ret.last.kind = "scrapeRetriesExhausted"
                  /\ ret.last.url =
                        result.Chapters[fetchLog[Len(fetchLog)].idx + 1].URL
                  /\ ret.last.last \in OnceErrors
                  /\ i = fetchLog[Len(fetchLog)].idx
                  /\ SaveIdle
                  /\ Len(saveCalls) =
                        IF opts.createTxt
                        THEN Cardinality(WithOutcome(fetchLog, "ok"))
                        ELSE 0

\* the run was aborted at a third failure in a row after a successful fetch
C1_AbortAfterSuccess ==
    /\ Aborted
    /\ WithOutcome(fetchLog, "ok") # {}
    /\ FailedRunAt(fetchLog, Len(fetchLog) - maxFailures + 1)

\* C2: failedChapters is the number of failed calls since the last
\* successful one (zero after a success, one more after a failure); wherever
\* the loop goes on it is in 0 .. maxFailures - 1; and the run is aborted by
\* the breaker only with the last maxFailures calls all failed.
C2_FailureCounter ==
    /\ failedChapters = TrailingFailed(Handled)
    /\ pc \in {"chapter", "scrape", "save", "saveReturned", "afterLoop"}
          => failedChapters \in 0..(maxFailures - 1)
    /\ Aborted => FailedRunAt(fetchLog, Len(fetchLog) - maxFailures + 1)

\* a run that ended without abort although three chapters failed in total
C2_ManyFailuresNoAbort ==
    /\ pc = "done"
    /\ ret = NoError
    /\ Cardinality(WithOutcome(fetchLog, "failed")) >= maxFailures

\* C3 as the specification states it: no call of ScrapeChapterWithHTML is
\* under way for a chapter whose {workCode}-{episodeNumber}.txt was found in
\* the output location when the chapter was reached.
C3_SavedChapterNotFetched ==
    (pc = "scrape" /\ opts.createTxt)
        => ~disk[TxtPath(ChapterFileName(result, i))].exists

\* the chapters of the successful handled calls, in the order of the calls
OkChapters ==
    LET ok == SelectSeq(Handled, LAMBDA e : e.outcome = "ok")
    IN  [k \in DOMAIN ok |-> result.Chapters[ok[k].idx + 1]]

\* C4: the calls of ScrapeChapterWithHTML are for strictly increasing
\* positions of result.Chapters (so no chapter is fetched twice), and
\* allChapterContents holds the formatted bodies of the successfully fetched
\* chapters in the order of their positions.
C4_OrderPreserved ==
    /\ \A a, b \in DOMAIN fetchLog :
          a < b => fetchLog[a].idx < fetchLog[b].idx
    /\ \A k \in DOMAIN fetchLog : fetchLog[k].idx \in 0..(totalChapters - 1)
    /\ LET ok == OkChapters
       IN  /\ allChapterContents =
                 [k \in DOMAIN ok |->
                     formatChapterContentForCombined(ok[k].Title,
                                                     ok[k].Content)]
           /\ \A k \in DOMAIN ok : ok[k].Content = RemoteContent(ok[k].URL)

\* a finished run with a skipped, a failed and two fetched chapters
C4_MixedRun ==
    /\ pc = "done"
    /\ Len(allChapterContents) >= 2
    /\ WithOutcome(fetchLog, "failed") # {}
    /\ Len(fetchLog) < totalChapters

\* C5: ScrapeChapterWithHTML calls scrapeChapterWithHTMLOnce at most
\* maxRetries (3) times; every failed call, whatever its error, uses one turn
\* up; the first call without error ends it with that call's result; after
\* three failed calls it returns empty outputs and the error that carries
\* the error of the third call.
C5_ScrapeRetry ==
    /\ attempts <= maxRetries
    /\ pc = "scrape" =>
          /\ attempts = retry
          /\ attempts > 0 => (once.err \in OnceErrors /\ lastErr = once.err)
    /\ pc = "scrapeReturned" =>
          IF once.err = NoError
          THEN /\ scraped = once
               /\ attempts = retry + 1
          ELSE /\ attempts = maxRetries
               /\ retry = maxRetries
               /\ scraped.err =
                     ErrScrapeExhausted(result.Chapters[i + 1].URL, once.err)
               /\ scraped.content = <<>>
               /\ scraped.rawHTML = <<>>
               /\ scraped.fullPageHTML = <<>>

\* the third call failed in the extraction, with the text already read
C5_ExhaustedByExtraction ==
    /\ pc = "scrapeReturned"
    /\ attempts = maxRetries
    /\ once.err = ErrNoBody
    /\ once.content # <<>>
    /\ scraped.err.kind = "scrapeRetriesExhausted"

\* C6: saveTextFileWithRetry calls saveTextFile at most saveMaxRetries (3)
\* times, sleeps SaveRetrySeconds before each call but the first, ends at the
\* first call without error with the file written, and after three failed
\* calls returns the error that carries the error of the third; while it
\* runs no call of ScrapeChapterWithHTML is under way and failedChapters
\* stays the number of failed fetches since the last successful one.
C6_SaveRetry ==
    /\ saveAttempts <= saveMaxRetries
    /\ saveSleeps =
          [k \in 1..(IF saveAttempts > 0 THEN saveAttempts - 1 ELSE 0) |->
              SaveRetrySeconds]
    /\ pc = "save" =>
          /\ saveAttempts = saveRetry
          /\ saveAttempts > 0 => (saveOnce # NoError /\ saveLastErr = saveOnce)
    /\ pc = "saveReturned" =>
          IF saveOnce = NoError
          THEN /\ saveErr = NoError
               /\ saveAttempts = saveRetry + 1
               /\ disk[TxtPath(saveArgs.title)] =
                     [exists |-> TRUE, written |-> TRUE,
                      encoding |-> opts.format.encoding,
                      text |-> ConvertLineEnding(saveArgs.content,
                                                 opts.format.lineEnding)]
          ELSE /\ saveAttempts = saveMaxRetries
               /\ saveErr = ErrSaveExhausted(saveArgs.title, saveOnce)
    /\ pc \in {"save", "saveReturned"} =>
          /\ ScrapeIdle
          /\ failedChapters = TrailingFailed(fetchLog)
          /\ saveFor = "chapter" => failedChapters = 0

\* a chapter save gave up after three failed writes and two equal sleeps
C6_SaveGaveUp ==
    /\ pc = "saveReturned"
    /\ saveFor = "chapter"
    /\ saveErr.kind = "saveRetriesExhausted"
    /\ saveSleeps = <<SaveRetrySeconds, SaveRetrySeconds>>

AllCalls == {k \in DOMAIN saveCalls : saveCalls[k] = AllName}

CompletedLoop == pc = "done" /\ ret.kind \notin {"tooManyFailures", "noEpisodes"}

AllWritten ==
    /\ TxtPath(AllName) \in DOMAIN disk
    /\ disk[TxtPath(AllName)].written

\* C7 as the specification states it: at the end of a run that was not
\* aborted the combined file is written if and only if createCombined is set
\* and a chapter was fetched successfully.
C7_CombinedWheneverRequested ==
    CompletedLoop =>
        (AllWritten <=> (opts.createCombined /\ Len(allChapterContents) > 0))

\* C7, amended: saveTextFileWithRetry is called for "all" at most once, and
\* in a run that was not aborted exactly once when createCombined and
\* createTxt are set and a chapter was fetched successfully, else never.  Its
\* content is the converted title and author and the accumulated bodies
\* joined by the separator.  The file is written when a write of the call
\* succeeds; when all three fail it is not and downloadRensai returns the
\* error of the combined save.
C7_CombinedSave ==
    LET wanted ==
            opts.createCombined /\ opts.createTxt
                /\ Len(allChapterContents) > 0
        content ==
            CombinedContent(result.Title, result.Author, allChapterContents)
    IN  /\ Cardinality(AllCalls) <= 1
        /\ saveFor = "all" =>
              saveArgs = [title |-> AllName, content |-> content]
        /\ AllWritten =>
              disk[TxtPath(AllName)].text =
                  ConvertLineEnding(content, opts.format.lineEnding)
        /\ CompletedLoop =>
              /\ Cardinality(AllCalls) = IF wanted THEN 1 ELSE 0
              /\ AllWritten <=> (wanted /\ ret = NoError)
              /\ ret # NoError =>
                    /\ wanted
                    /\ ret.kind = "combinedSave"
                    /\ ret.cause.kind = "saveRetriesExhausted"

\* the combined file of a run with two fetched chapters is written
C7_CombinedWritten ==
    /\ pc = "done"
    /\ ret = NoError
    /\ AllWritten
    /\ Len(allChapterContents) >= 2

\* C8 as the specification states it, for the runs in which no fetch failed:
\* the combined file a run writes holds the body of every chapter of
\* result.Chapters, in order, after title and author.
C8_CombinedCoversWork ==
    (AllWritten /\ WithOutcome(fetchLog, "failed") = {}) =>
        disk[TxtPath(AllName)].text =
            ConvertLineEnding(
                CombinedContent(
                    result.Title, result.Author,
                    [k \in DOMAIN result.Chapters |->
                        formatChapterContentForCombined(
                            result.Chapters[k].Title,
                            RemoteContent(result.Chapters[k].URL))]),
                opts.format.lineEnding)

(***************************************************************************)
(* The table-of-contents walk: StartScraping and scrapeChapterList         *)
(* (scraper.go) under DownloadNovel (app.go).  A string that is a URL or   *)
(* a link is the sequence of its "/"-separated parts: "" is <<<<>>>>.      *)
(***************************************************************************)
NumPages == 2

EmptyStr == <<<<>>>>

Slash == <<<<>>, <<>>>>

\* a + b for two strings given by their parts
StrCat(a, b) ==
    SubSeq(a, 1, Len(a) - 1) \o <<a[Len(a)] \o b[1]>> \o Tail(b)

HasPrefixHttp(str) == HasPrefix(str[1], <<"h", "t", "t", "p">>)

HasPrefixSlash(str) == Len(str) >= 2 /\ str[1] = <<>>

StrContains(str, needle) == \E k \in DOMAIN str : Contains(str[k], needle)

Origin(baseURL) ==
    IF StrContains(baseURL, HostNovel18)
    THEN <<Https, <<>>, HostNovel18>>
    ELSE <<Https, <<>>, HostNcode>>

\* scraper.go 175-186
AbsoluteChapterURL(baseURL, href) ==
    IF ~HasPrefixHttp(href)
    THEN IF HasPrefixSlash(href)
         THEN StrCat(Origin(baseURL), href)
         ELSE StrCat(StrCat(baseURL, Slash), href)
    ELSE href

\* scraper.go 205-220
NextPageURL(baseURL, nextLink) ==
    IF ~HasPrefixHttp(nextLink)
    THEN IF HasPrefixSlash(nextLink)
         THEN StrCat(Origin(baseURL), nextLink)
         ELSE StrCat(baseURL, nextLink)
    ELSE nextLink

\* strings.TrimSpace on tokens
RECURSIVE TrimLeft(_)
TrimLeft(t) ==
    IF t # <<>> /\ Head(t) \in Spaces THEN TrimLeft(Tail(t)) ELSE t

RECURSIVE TrimRight(_)
TrimRight(t) ==
    IF t # <<>> /\ t[Len(t)] \in Spaces
    THEN TrimRight(SubSeq(t, 1, Len(t) - 1))
    ELSE t

TrimSpace(t) == TrimRight(TrimLeft(t))

\* the links of the remote index pages
QueryPart(q) == <<"?", "p", "=">> \o SprintfD(q)

IndexURL(host) == <<Https, <<>>, host, WorkCode, <<>>>>

PageURL(host, q) == <<Https, <<>>, host, WorkCode, QueryPart(q)>>

RootRelChapter(k) == <<<<>>, WorkCode, SprintfD(k), <<>>>>

AbsChapter(host, k) == <<Https, <<>>, host, WorkCode, SprintfD(k), <<>>>>

RelChapter(k) == <<SprintfD(k), <<>>>>

Anchor(hasHref, href, text) ==
    [hasHref |-> hasHref, href |-> href, text |-> text]

Styles == {"rootrel", "mixed", "empty", "sparse"}

\* the <a> elements under .p-eplist__sublist of page q, in document order
AnchorsOf(style, host, q) ==
    CASE style = "rootrel" ->
            <<Anchor(TRUE, RootRelChapter(2 * q - 1), ChapterTitle(2 * q - 1)),
              Anchor(TRUE, RootRelChapter(2 * q), ChapterTitle(2 * q))>>
      [] style = "mixed" ->
            <<Anchor(FALSE, EmptyStr, <<"no", "href">>),
              Anchor(TRUE, AbsChapter(host, 2 * q - 1),
                     <<" ", NL>> \o ChapterTitle(2 * q - 1) \o <<" ">>),
              Anchor(TRUE, RelChapter(2 * q), ChapterTitle(2 * q))>>
      [] style = "empty" -> <<>>
      [] style = "sparse" ->
            IF q = 1 THEN <<>>
            ELSE <<Anchor(TRUE, RootRelChapter(q), ChapterTitle(q))>>

\* the href of .c-pager__item--next: none, empty, or a link to page q
NoNext == [exists |-> FALSE, href |-> EmptyStr]

EmptyNext == [exists |-> TRUE, href |-> EmptyStr]

NextTo(style, host, q) ==
    [exists |-> TRUE,
     href |-> CASE style = "mixed" -> <<QueryPart(q)>>
                [] style = "sparse" -> PageURL(host, q)
                [] OTHER -> <<<<>>, WorkCode, QueryPart(q)>>]

NextChoices(style, host) ==
    {NoNext, EmptyNext} \cup {NextTo(style, host, q) : q \in 1..NumPages}

Hosts == {HostNcode, HostNovel18}

Sites ==
    UNION {{[host |-> hs[1], style |-> hs[2], next |-> next] :
               next \in [1..NumPages -> NextChoices(hs[2], hs[1])]} :
              hs \in Hosts \X Styles}

\* the page the server sends for url: page 0, with no link, for a URL it
\* does not know
PageAt(st, url) ==
    LET known == {q \in 1..NumPages : url = PageURL(st.host, q)}
    IN  IF url = IndexURL(st.host) THEN 1
        ELSE IF known # {} THEN Min(known)
        ELSE 0

Doc(st, q) ==
    IF q = 0 THEN NoDoc
    ELSE [anchors |-> AnchorsOf(st.style, st.host, q), next |-> st.next[q]]

\* what extractFullPageHTML returns for page q
PageHTML(st, q) == <<"<html>", "index">> \o SprintfD(q) \o <<"</html>">>

\* the anchors with an href, in document order
RECURSIVE WithHref(_)
WithHref(anchors) ==
    IF anchors = <<>> THEN <<>>
    ELSE (IF Head(anchors).hasHref THEN <<Head(anchors)>> ELSE <<>>)
             \o WithHref(Tail(anchors))

\* scraper.go 169-196: the chapters Each appends for one page
PageChapters(anchors, baseURL) ==
    LET links == WithHref(anchors)
    IN  [k \in DOMAIN links |->
            NewChapter(TrimSpace(links[k].text),
                       AbsoluteChapterURL(baseURL, links[k].href))]

ErrNoList == [kind |-> "noEpisodeList"]

ErrNextPage(cause) == [kind |-> "nextPage", cause |-> cause]

ErrScraping(cause) == [kind |-> "scraping", cause |-> cause]

ErrSavePath == [kind |-> "savePath"]

\* scraper.go 37-118 and 155-165: the request of the index page, title,
\* author and page type, and the start of scrapeChapterList.  The page is
\* one of a serial work: it has the episode list.
StartScraping ==
    /\ tocPc = "start"
    /\ requests' = Append(requests, IndexURL(site.host))
    /\ \/ /\ result' = [result EXCEPT !.Error = ErrTransport]
          /\ tocPc' = "returned"
          /\ UNCHANGED <<pageDoc, visited>>
       \/ \E htmlOk \in BOOLEAN :
             /\ result' = [result EXCEPT
                             !.Title = <<"T">>,
                             !.Author = <<"A">>,
                             !.PageType = "rensai",
                             !.IndexPagesHTML =
                                 IF htmlOk THEN <<PageHTML(site, 1)>> ELSE <<>>]
             /\ pageDoc' = Doc(site, 1)
             /\ visited' = <<1>>
             /\ tocPc' = "collect"
    /\ progress' = 0
    /\ UNCHANGED <<convVars, opts, disk, pc, i, failedChapters, allChapterContents,
                   scrapeVars, fetchLog, paced, saveVars, saveCalls, ret,
                   site, tocErr>>

\* variant: the links of a page are put in front
PrependPage(chapters, found) == found \o chapters

\* result.Chapters = append(result.Chapters, chapter), for the page's links
AppendPage(chapters, found) == chapters \o found

\* variant: an empty href is followed
NextLinkAbsent(next) == ~next.exists

\* !exists || nextLink == ""
NextLinkMissing(next) == ~next.exists \/ next.href = EmptyStr

\* variant: the walk returns nil whatever it found
WalkResultUnchecked(chapters) == NoError

\* scraper.go 238-242: what scrapeChapterList returns after the loop
WalkResult(chapters) == IF Len(chapters) = 0 THEN ErrNoList ELSE NoError

\* scraper.go 168-203 and 238-242: the links of the page are appended; with
\* no next link the loop ends and scrapeChapterList returns
WalkCollect ==
    /\ tocPc = "collect"
    /\ LET chapters ==
               AppendPage(result.Chapters,
                          PageChapters(pageDoc.anchors, IndexURL(site.host)))
       IN  IF NextLinkMissing(pageDoc.next)
           THEN /\ tocErr' = WalkResult(chapters)
                /\ result' = [result EXCEPT !.Chapters = chapters,
                                            !.Error = tocErr']
                /\ tocPc' = "returned"
           ELSE /\ result' = [result EXCEPT !.Chapters = chapters]
                /\ tocPc' = "fetch"
                /\ tocErr' = tocErr
    /\ UNCHANGED <<convVars, opts, disk, pc, i, failedChapters, allChapterContents,
                   scrapeVars, fetchLog, paced, saveVars, saveCalls, progress,
                   ret, site, pageDoc, visited, requests>>

\* scraper.go 205-235: the next page is fetched, once
WalkFetch ==
    /\ tocPc = "fetch"
    /\ Len(visited) < MaxVisits
    /\ LET nextURL == NextPageURL(IndexURL(site.host), pageDoc.next.href)
       IN  /\ requests' = Append(requests, nextURL)
           /\ \/ /\ tocErr' = ErrNextPage(ErrTransport)
                 /\ result' = [result EXCEPT !.Error = tocErr']
                 /\ tocPc' = "returned"
                 /\ UNCHANGED <<pageDoc, visited>>
              \/ \E htmlOk \in BOOLEAN :
                    /\ pageDoc' = Doc(site, PageAt(site, nextURL))
                    /\ visited' = Append(visited, PageAt(site, nextURL))
                    /\ result' =
                          [result EXCEPT !.IndexPagesHTML =
                              IF htmlOk
                              THEN Append(@, PageHTML(site, PageAt(site, nextURL)))
                              ELSE @]
                    /\ tocPc' = "collect"
                    /\ tocErr' = tocErr
    /\ UNCHANGED <<convVars, opts, disk, pc, i, failedChapters, allChapterContents,
                   scrapeVars, fetchLog, paced, saveVars, saveCalls, progress,
                   ret, site>>

\* app.go 88-116: StartScraping has returned; with an error DownloadNovel
\* returns it, else it sets the save path up and calls downloadRensai
DownloadNovel ==
    /\ tocPc = "returned"
    /\ tocPc' = "done"
    /\ IF result.Error # NoError
       THEN /\ ret' = ErrScraping(result.Error)
            /\ pc' = pc
       ELSE \/ /\ ret' = ErrSavePath
               /\ pc' = pc
            \/ /\ ret' = ret
               /\ pc' = "entry"
    /\ UNCHANGED <<convVars, result, opts, disk, i, failedChapters, allChapterContents,
                   scrapeVars, fetchLog, paced, saveVars, saveCalls, progress,
                   site, pageDoc, visited, requests, tocErr>>

InitToc ==
    /\ result = EmptyResult
    /\ opts = DefaultOptions
    /\ disk = <<>>
    /\ pc = "idle"
    /\ i = 0
    /\ failedChapters = 0
    /\ allChapterContents = <<>>
    /\ ScrapeIdle
    /\ fetchLog = <<>>
    /\ paced = TRUE
    /\ SaveIdle
    /\ saveCalls = <<>>
    /\ progress = 0
    /\ ret = NotReturned
    /\ tocPc = "start"
    /\ site \in Sites
    /\ pageDoc = NoDoc
    /\ visited = <<>>
    /\ requests = <<>>
    /\ tocErr = NotReturned
    /\ ConvIdle

NextToc ==
    \/ StartScraping
    \/ WalkCollect
    \/ WalkFetch
    \/ DownloadNovel

SpecToc == InitToc /\ [][NextToc]_vars


(***************************************************************************)
(* Properties of the table-of-contents walk, under SpecToc.                *)
(***************************************************************************)
\* the index pages whose links scrapeChapterList has appended
Collected ==
    IF tocPc = "collect" THEN SubSeq(visited, 1, Len(visited) - 1) ELSE visited

\* the links of the pages, page after page, each page in document order
RECURSIVE WalkChapters(_, _)
WalkChapters(st, pages) ==
    IF pages = <<>> THEN <<>>
    ELSE WalkChapters(st, SubSeq(pages, 1, Len(pages) - 1))
             \o PageChapters(Doc(st, pages[Len(pages)]).anchors,
                             IndexURL(st.host))

\* a is b with some elements left out
RECURSIVE IsSubSeq(_, _)
IsSubSeq(a, b) ==
    IF a = <<>> THEN TRUE
    ELSE IF b = <<>> THEN FALSE
    ELSE IF Head(a) = Head(b) THEN IsSubSeq(Tail(a), Tail(b))
    ELSE IsSubSeq(a, Tail(b))

\* C9: result.Chapters is the chapters of the links of the first index page
\* visited, in document order, then those of the second, and so on, none
\* left out, doubled or moved; result.IndexPagesHTML holds documents of the
\* visited pages in the order of the visits.
C9_WalkOrder ==
    /\ result.Chapters = WalkChapters(site, Collected)
    /\ IsSubSeq(result.IndexPagesHTML,
                [k \in DOMAIN visited |-> PageHTML(site, visited[k])])
    /\ Len(result.IndexPagesHTML) <= Len(visited)

\* a walk over two pages of absolute, relative and href-less links has ended
C9_TwoPagesWalked ==
    /\ tocPc = "returned"
    /\ tocErr = NoError
    /\ site.style = "mixed"
    /\ visited = <<1, 2>>
    /\ Len(result.Chapters) = 4
    /\ Len(result.IndexPagesHTML) = 2

NextLinkGiven == pageDoc.next.exists /\ pageDoc.next.href # EmptyStr

\* C10: scrapeChapterList fetches a next page only for a next link that is
\* there and not empty, and it has ended either on a page without such a
\* link or with the error of a failed fetchPage, which was the last request
\* and was made once.  (StartScraping's own request of the index page can
\* fail before the walk.)  Until an error every request gave a page.  With
\* an error in result.Error downloadRensai is not entered and DownloadNovel
\* returns the error.
C10_WalkEnds ==
    /\ tocPc = "fetch" => NextLinkGiven
    /\ tocPc \in {"start", "collect", "fetch"} =>
          /\ Len(requests) = Len(visited)
          /\ result.Error = NoError
    /\ tocPc \in {"returned", "done"} =>
          \/ /\ visited = <<>>
             /\ Len(requests) = 1
             /\ result.Error = ErrTransport
          \/ /\ visited # <<>>
             /\ ~NextLinkGiven
             /\ tocErr \in {NoError, ErrNoList}
             /\ result.Error = tocErr
             /\ Len(requests) = Len(visited)
          \/ /\ visited # <<>>
             /\ NextLinkGiven
             /\ tocErr = ErrNextPage(ErrTransport)
             /\ result.Error = tocErr
             /\ Len(requests) = Len(visited) + 1
             /\ requests[Len(requests)] =
                   NextPageURL(IndexURL(site.host), pageDoc.next.href)
    /\ result.Error # NoError =>
          /\ pc = "idle"
          /\ tocPc = "done" => ret = ErrScraping(result.Error)

\* the fetch of the third index page failed and DownloadNovel returned
C10_FetchFailed ==
    /\ tocPc = "done"
    /\ tocErr = ErrNextPage(ErrTransport)
    /\ Len(visited) = 2
    /\ Len(requests) = 3
    /\ pc = "idle"

\* the walk read its last page to the end: no fetch failed
WalkCompleted == tocPc \in {"returned", "done"} /\ visited # <<>> /\ ~NextLinkGiven

\* C11: a walk that read its pages to the end and found no chapter returns
\* the no-episode-list error, which is not the error of a failed next-page
\* fetch, and returns nil when it found a chapter; with that error
\* downloadRensai is not entered, no chapter is fetched and no file is
\* looked at or written, and DownloadNovel returns the error.
C11_EmptyWalkIsError ==
    /\ WalkCompleted =>
          /\ tocErr = WalkResult(result.Chapters)
          /\ (tocErr = ErrNoList) <=> (result.Chapters = <<>>)
          /\ tocErr.kind # ErrNextPage(ErrTransport).kind
    /\ pc # "idle" => result.Chapters # <<>>
    /\ result.Chapters = <<>> =>
          /\ pc = "idle"
          /\ fetchLog = <<>>
          /\ saveCalls = <<>>
          /\ disk = <<>>
          /\ tocPc = "done" => ret.kind = "scraping"
    /\ (tocPc = "done" /\ tocErr = ErrNoList) => ret = ErrScraping(ErrNoList)

\* two index pages without a chapter link were read and the error returned
C11_EmptyWalkReturned ==
    /\ tocPc = "done"
    /\ tocErr = ErrNoList
    /\ visited = <<1, 2>>
    /\ ret = ErrScraping(ErrNoList)

(***************************************************************************)
(* File naming, descriptors, error classes and pacing, under Spec.         *)
(***************************************************************************)
\* the shape of the chapter URLs of the work
SchemeOf(res) ==
    CHOOSE scheme \in Schemes :
        \A k \in DOMAIN res.Chapters :
            res.Chapters[k].URL = SchemeURL(scheme, k, Len(res.Chapters))

\* the number in the path of the URL of chapter k of n; 0: the path has none
NumberInPath(scheme, k, n) ==
    CASE scheme = "numbered" -> k
      [] scheme = "descending" -> n + 1 - k
      [] scheme = "relative" -> 0

\* the episode number of chapter k (1-based) of n, by the rule of the claim
RuleEpisode(scheme, n, k) ==
    LET parsed == NumberInPath(scheme, k, n)
    IN  IF parsed = 0 \/ (k > 1 /\ parsed = 1) THEN k ELSE parsed

\* {workCode}-{episodeNumber} for the work n12ab
RuleFileName(scheme, n, k) ==
    <<"N", "1", "2", "A", "B", "-">> \o SprintfD(RuleEpisode(scheme, n, k))

\* C12: the file identifier downloadRensai looks for and saves under, for
\* the chapter at position i, is N12AB-<e>, where e is the number in the
\* path of the chapter URL, or i+1 when the path has none or when i > 0 and
\* the number is 1; html/<e>.html is the HTML file looked for.
C12_FileIdentifier ==
    LET scheme == SchemeOf(result)
        n == Len(result.Chapters)
        name == [k \in 1..n |-> RuleFileName(scheme, n, k)]
        paths == {TxtPath(name[k]) : k \in 1..n}
                   \cup {HtmlPath(SprintfD(RuleEpisode(scheme, n, k))) :
                           k \in 1..n}
                   \cup {TxtPath(AllName)}
    IN  /\ pc \in {"scrape", "scrapeReturned"} =>
              /\ opts.createTxt => TxtPath(name[i + 1]) \in DOMAIN disk
              /\ opts.createHtml =>
                    HtmlPath(SprintfD(RuleEpisode(scheme, n, i + 1)))
                        \in DOMAIN disk
        /\ saveFor = "chapter" => saveArgs.title = name[i + 1]
        /\ n > 0 => DOMAIN disk \subseteq paths
        /\ n = 0 => DOMAIN disk = {}
        /\ opts.createTxt =>
              SelectSeq(saveCalls, LAMBDA t : t # AllName) =
                  LET ok == SelectSeq(IF pc \in {"save", "saveReturned"}
                                      THEN fetchLog ELSE Handled,
                                      LAMBDA e : e.outcome = "ok")
                  IN  [k \in DOMAIN ok |-> name[ok[k].idx + 1]]

\* the second chapter of a work whose URLs carry no parseable number is
\* saved as N12AB-2, and the last chapter of a descending list likewise
C12_IndexUsed ==
    /\ saveFor = "chapter"
    /\ i = 1
    /\ SchemeOf(result) \in {"relative", "descending"}
    /\ extractEpisodeNumberFromURL(result.Chapters[2].URL) = <<"1">>
    /\ saveArgs.title = <<"N", "1", "2", "A", "B", "-", "2">>

\* C13 as the specification states it, for the failed fetches: once a failed
\* call of ScrapeChapterWithHTML has been handled, the descriptor of its
\* chapter has Failed set and RetryCount raised.
C13_FailureRecorded ==
    \A k \in DOMAIN Handled :
        Handled[k].outcome = "failed" =>
            /\ result.Chapters[Handled[k].idx + 1].Failed
            /\ result.Chapters[Handled[k].idx + 1].RetryCount > 0

\* the chapter saves that gave up: the file was not written by the run
FailedChapterSaves ==
    {k \in DOMAIN saveCalls :
        /\ saveCalls[k] # AllName
        /\ ~disk[TxtPath(saveCalls[k])].written}

\* the last maxFailures calls of ScrapeChapterWithHTML all failed
LastFetchesFailed ==
    /\ Len(fetchLog) >= maxFailures
    /\ FailedRunAt(fetchLog, Len(fetchLog) - maxFailures + 1)

\* C14 as the specification states it: downloadRensai returns nil, the
\* failure-budget error or the zero-chapter error, and nothing else.
C14_OnlyTwoFatalErrors ==
    pc = "done" => ret.kind \in {"nil", "tooManyFailures", "noEpisodes"}

\* C14, amended: downloadRensai returns the zero-chapter error exactly for
\* an empty chapter list, the failure-budget error exactly when the last
\* maxFailures fetches all failed, the combined-save error exactly when the
\* save of the combined file gave up, and nil in every other case; a return
\* other than the failure-budget error comes after the loop has gone
\* through every chapter, whatever fetches and chapter saves failed.
C14_ErrorClasses ==
    pc = "done" =>
        /\ ret.kind \in {"nil", "tooManyFailures", "noEpisodes", "combinedSave"}
        /\ (ret.kind = "noEpisodes") <=> (totalChapters = 0)
        /\ (ret.kind = "tooManyFailures") <=> LastFetchesFailed
        /\ (ret.kind = "combinedSave") <=> (AllCalls # {} /\ ~AllWritten)
        /\ ret.kind \in {"nil", "combinedSave"} =>
              /\ i = totalChapters
              /\ i > 0

\* a run with a failed fetch and a chapter save that gave up returned nil
C14_FailuresButSuccess ==
    /\ pc = "done"
    /\ ret = NoError
    /\ WithOutcome(fetchLog, "failed") # {}
    /\ FailedChapterSaves # {}

\* C15 as the specification states it: a call of ScrapeChapterWithHTML is
\* under way only with the pacing sleep done since the call before it
\* returned.
C15_PacedBetweenFetches ==
    pc = "scrape" => paced

(***************************************************************************)
(* The HTML converter (html_converter.go).  Here a text is the sequence of *)
(* its characters.  An ASCII character stands for itself; "kan" and "kana" *)
(* stand for a Han ideograph and a kana character, "BAR" for U+FF5C, "LQ"  *)
(* and "RQ" for U+300A and U+300B, "DLQ" and "DRQ" for U+226A and U+226B,  *)
(* "FW[", "FW#", "FW]", "FW(" and "FW)" for the full-width bracket, number *)
(* sign and parentheses, and "BOLD", "ITALIC", "STRIKE", "ILLUST", "DOTS", *)
(* "END" and "ENTER" for the words of the annotations.                     *)
(***************************************************************************)
\* the calls one converter run makes
MaxCalls == 2

Tag(name) == <<"<">> \o name \o <<">">>

CloseTag(name) == <<"<", "/">> \o name \o <<">">>

\* the simple case folding of (?i), on the letters of the tag names
FoldChar(c) ==
    CASE c = "B" -> "b"
      [] c = "I" -> "i"
      [] c = "P" -> "p"
      [] c = "R" -> "r"
      [] c = "S" -> "s"
      [] c = "T" -> "t"
      [] c = "U" -> "u"
      [] c = "Y" -> "y"
      [] OTHER -> c

\* the literal pat matches the text at position p; fold is the (?i) flag
MatchAt(text, p, pat, fold) ==
    /\ p >= 1
    /\ p + Len(pat) - 1 <= Len(text)
    /\ \A k \in 1..Len(pat) :
          IF fold THEN FoldChar(text[p + k - 1]) = pat[k]
          ELSE text[p + k - 1] = pat[k]

\* the first position at or after p where the literal pat matches, 0 if
\* none; with dot the characters passed over are matched by ".", which
\* does not match a line feed
Find(text, p, pat, fold, dot) ==
    LET feeds == {j \in p..Len(text) : text[j] = NL}
        last == IF dot /\ feeds # {} THEN Min(feeds) ELSE Len(text)
        hits == {q \in p..last : MatchAt(text, q, pat, fold)}
    IN IF hits = {} THEN 0 ELSE Min(hits)

\* open at position at, then at least min characters matched lazily by
\* ".", then close: the position of close, 0 if no match
LazyClose(text, at, open, min, close, fold) ==
    IF ~MatchAt(text, at, open, fold) THEN 0
    ELSE IF \E k \in 0..(min - 1) :
               \/ at + Len(open) + k > Len(text)
               \/ text[at + Len(open) + k] = NL
         THEN 0
    ELSE Find(text, at + Len(open) + min, close, fold, TRUE)

\* the leftmost match of such a pattern: where it starts and where its
\* close is, both 0 if the text has no match
FirstLazy(text, open, min, close, fold) ==
    LET starts == {at \in DOMAIN text :
                      LazyClose(text, at, open, min, close, fold) > 0}
    IN IF starts = {} THEN [at |-> 0, close |-> 0]
       ELSE [at |-> Min(starts),
             close |-> LazyClose(text, Min(starts), open, min, close, fold)]

From(text, p) == SubSeq(text, p, Len(text))

Upto(text, p) == SubSeq(text, 1, p - 1)

\* strings.ReplaceAll, and ReplaceAllString of a literal pattern
RECURSIVE ReplaceAll(_, _, _, _)
ReplaceAll(text, old, new, fold) ==
    LET at == Find(text, 1, old, fold, FALSE)
    IN IF at = 0 THEN text
       ELSE Upto(text, at) \o new
            \o ReplaceAll(From(text, at + Len(old)), old, new, fold)

\* html_converter.go 89-90: `<br.*?>` gives a line feed
RECURSIVE ReplaceBr(_)
ReplaceBr(text) ==
    LET m == FirstLazy(text, <<"<", "b", "r">>, 0, <<">">>, FALSE)
    IN IF m.at = 0 THEN text
       ELSE Upto(text, m.at) \o <<NL>> \o ReplaceBr(From(text, m.close + 1))

\* html_converter.go 83-91
brToAozora(text) ==
    ReplaceBr(SelectSeq(text, LAMBDA c : c \notin {CR, NL}))

\* html_converter.go 94-97: `(?i)\n?</p>` gives a line feed
RECURSIVE pToAozora(_)
pToAozora(text) ==
    LET endP == CloseTag(<<"p">>)
        tag == Find(text, 1, endP, TRUE, FALSE)
        at == IF tag > 1 /\ text[tag - 1] = NL THEN tag - 1 ELSE tag
    IN IF tag = 0 THEN text
       ELSE Upto(text, at) \o <<NL>>
            \o pToAozora(From(text, tag + Len(endP)))

\* html_converter.go 195-198: `<.+?>` gives nothing
RECURSIVE deleteTag(_)
deleteTag(text) ==
    LET m == FirstLazy(text, <<"<">>, 1, <<">">>, FALSE)
    IN IF m.at = 0 THEN text
       ELSE Upto(text, m.at) \o deleteTag(From(text, m.close + 1))

\* regexp.Split(s, 2) on a literal pattern under (?i)
Split2(s, sep) ==
    LET at == Find(s, 1, sep, TRUE, FALSE)
    IN IF at = 0 THEN <<s>>
       ELSE <<SubSeq(s, 1, at - 1), From(s, at + Len(sep))>>

\* variant: the text of a part is taken with its parenthesis sub-tags
WholePart(part) == part

\* html_converter.go 118-119, 122-123: the part before its first <rp>
BeforeRp(part) == Split2(part, Tag(<<"r", "p">>))[1]

\* html_converter.go 106-129: what one ruby span is replaced by
RubySpan(rubyContent) ==
    LET parts == Split2(rubyContent, Tag(<<"r", "t">>))
    IN IF Len(parts) < 2 THEN deleteTag(parts[1])
       ELSE <<"BAR">> \o deleteTag(BeforeRp(parts[1]))
            \o <<"LQ">> \o deleteTag(BeforeRp(parts[2])) \o <<"RQ">>

\* html_converter.go 105-106: `(?i)<ruby>(.+?)</ruby>`
RECURSIVE ReplaceRuby(_)
ReplaceRuby(text) ==
    LET open == Tag(<<"r", "u", "b", "y">>)
        shut == CloseTag(<<"r", "u", "b", "y">>)
        m == FirstLazy(text, open, 1, shut, TRUE)
    IN IF m.at = 0 THEN text
       ELSE Upto(text, m.at)
            \o RubySpan(SubSeq(text, m.at + Len(open), m.close - 1))
            \o ReplaceRuby(From(text, m.close + Len(shut)))

\* html_converter.go 100-131
rubyToAozora(text) ==
    ReplaceRuby(ReplaceAll(ReplaceAll(text, <<"LQ">>, <<"DLQ">>, FALSE),
                           <<"RQ">>, <<"DRQ">>, FALSE))

Note(words) == <<"FW[", "FW#">> \o words \o <<"FW]">>

\* variant: the tags are matched in lower case only
LowerDecorationToAozora(text, name, word) ==
    ReplaceAll(ReplaceAll(text, Tag(name), Note(<<word>>), FALSE),
               CloseTag(name), Note(<<word, "END">>), FALSE)

\* html_converter.go 134-158: an opening and a closing tag to annotations
DecorationToAozora(text, name, word) ==
    ReplaceAll(ReplaceAll(text, Tag(name), Note(<<word>>), TRUE),
               CloseTag(name), Note(<<word, "END">>), TRUE)

bToAozora(text) == DecorationToAozora(text, <<"b">>, "BOLD")

iToAozora(text) == DecorationToAozora(text, <<"i">>, "ITALIC")

sToAozora(text) == DecorationToAozora(text, <<"s">>, "STRIKE")

Quote == "\""

SrcAttr == <<"s", "r", "c", "=", Quote>>

\* url.Parse of the base and Parse of src against it, html_converter.go
\* 175-181: a src with a scheme stays, a src from the root goes under the
\* origin of the base, any other src under the directory of the base
ResolveSrc(currentURL, src) ==
    LET colon == Find(src, 1, <<":">>, FALSE, FALSE)
        slash == Find(src, 1, <<"/">>, FALSE, FALSE)
        root == Find(currentURL, 1, <<"/", "/">>, FALSE, FALSE)
        path == IF root = 0 THEN 0
                ELSE Find(currentURL, root + 2, <<"/">>, FALSE, FALSE)
        dir == CHOOSE k \in 0..Len(currentURL) :
                  /\ k > 0 => currentURL[k] = "/"
                  /\ \A j \in (k + 1)..Len(currentURL) : currentURL[j] # "/"
    IN IF colon > 0 /\ (slash = 0 \/ colon < slash) THEN src
       ELSE IF slash = 1
            THEN (IF path = 0 THEN currentURL
                  ELSE SubSeq(currentURL, 1, path - 1)) \o src
       ELSE IF root > 0 /\ path = 0 THEN currentURL \o <<"/">> \o src
       ELSE SubSeq(currentURL, 1, dir) \o src

\* html_converter.go 166-185: what one img tag is replaced by
IllustNote(hh, src) ==
    Note(<<"ILLUST", "FW(">>
         \o (IF hh.illustCurrentURL # <<>>
                THEN ResolveSrc(hh.illustCurrentURL, src)
                ELSE src)
         \o <<"FW)", "ENTER">>)

\* html_converter.go 23, 166: `<img.+?src="(?P<src>.+?)".*?>` at a
\* position of the text: where src=" starts, where the closing quote is
\* and where the tag ends, all 0 if no match
ImgMatch(text, at) ==
    LET srcAt == LazyClose(text, at, <<"<", "i", "m", "g">>, 1, SrcAttr,
                           FALSE)
        quoteAt == IF srcAt = 0 THEN 0
                   ELSE LazyClose(text, srcAt, SrcAttr, 1, <<Quote>>, FALSE)
        endAt == IF quoteAt = 0 THEN 0
                 ELSE Find(text, quoteAt + 1, <<">">>, FALSE, TRUE)
    IN IF endAt = 0 THEN [src |-> 0, quote |-> 0, end |-> 0]
       ELSE [src |-> srcAt, quote |-> quoteAt, end |-> endAt]

RECURSIVE ReplaceImg(_, _)
ReplaceImg(hh, text) ==
    LET starts == {at \in DOMAIN text : ImgMatch(text, at).end > 0}
        m == ImgMatch(text, Min(starts))
    IN IF starts = {} THEN text
       ELSE Upto(text, Min(starts))
            \o IllustNote(hh, SubSeq(text, m.src + Len(SrcAttr), m.quote - 1))
            \o ReplaceImg(hh, From(text, m.end + 1))

\* the patterns of illustrations: the one of NewHTMLConverter,
\* `<img.+?src="(?P<src>.+?)".*?>`, a pattern without a group, `<img.+?>`,
\* and `<img(`, which regexp.Compile rejects
DefaultPattern == "default"

GrouplessPattern == "groupless"

BrokenPattern == "broken"

\* html_converter.go 161-186: no pattern, no replacement; a match of a
\* pattern without a group has len(matches) < 2 and is returned as it is
imgToAozora(hh, text) ==
    IF hh.illustGrepPattern \in {"nil", GrouplessPattern} THEN text
    ELSE ReplaceImg(hh, text)

EmOpen ==
    <<"<", "e", "m", " ", "c", "l", "a", "s", "s", "=", Quote,
      "e", "m", "p", "h", "a", "s", "i", "s", "D", "o", "t", "s", Quote, ">">>

\* html_converter.go 189-192: `<em class="emphasisDots">(.+?)</em>`
RECURSIVE emToSesame(_)
emToSesame(text) ==
    LET shut == CloseTag(<<"e", "m">>)
        m == FirstLazy(text, EmOpen, 1, shut, FALSE)
    IN IF m.at = 0 THEN text
       ELSE Upto(text, m.at)
            \o Note(<<"DOTS">>)
            \o SubSeq(text, m.at + Len(EmOpen), m.close - 1)
            \o Note(<<"DOTS", "END">>)
            \o emToSesame(From(text, m.close + Len(shut)))

Entity(name) == <<"&">> \o name \o <<";">>

\* html_converter.go 202-218: the table of the named entities, "&amp;"
\* first; "NBSP" stands for the space the table gives for "&nbsp;", and
\* "HELLIP", "MDASH", "NDASH", "LDQ", "RDQ" for U+2026, U+2014, U+2013,
\* U+201C and U+201D
replacements ==
    <<[entity |-> Entity(<<"a", "m", "p">>), char |-> "&"],
      [entity |-> Entity(<<"l", "t">>), char |-> "<"],
      [entity |-> Entity(<<"g", "t">>), char |-> ">"],
      [entity |-> Entity(<<"q", "u", "o", "t">>), char |-> Quote],
      [entity |-> Entity(<<"a", "p", "o", "s">>), char |-> "'"],
      [entity |-> Entity(<<"n", "b", "s", "p">>), char |-> "NBSP"],
      [entity |-> Entity(<<"#", "3", "9">>), char |-> "'"],
      [entity |-> Entity(<<"#", "3", "4">>), char |-> Quote],
      [entity |-> Entity(<<"h", "e", "l", "l", "i", "p">>), char |-> "HELLIP"],
      [entity |-> Entity(<<"m", "d", "a", "s", "h">>), char |-> "MDASH"],
      [entity |-> Entity(<<"n", "d", "a", "s", "h">>), char |-> "NDASH"],
      [entity |-> Entity(<<"l", "s", "q", "u", "o">>), char |-> "'"],
      [entity |-> Entity(<<"r", "s", "q", "u", "o">>), char |-> "'"],
      [entity |-> Entity(<<"l", "d", "q", "u", "o">>), char |-> "LDQ"],
      [entity |-> Entity(<<"r", "d", "q", "u", "o">>), char |-> "RDQ"]>>

\* html_converter.go 221-223, one turn of the loop
ReplaceEntity(text, k) ==
    ReplaceAll(text, replacements[k].entity, <<replacements[k].char>>, FALSE)

\* the turns of the loop for the entries of a set, which does not hold
\* "&amp;": no such entry gives a character of an entity, so the order
\* among them does not tell
RECURSIVE ReplaceEntities(_, _)
ReplaceEntities(text, entries) ==
    IF entries = {} THEN text
    ELSE LET k == Min(entries)
         IN ReplaceEntities(ReplaceEntity(text, k), entries \ {k})

OtherEntries == (DOMAIN replacements) \ {1}

\* the entries, other than "&amp;", that a text holds before or after its
\* "&amp;" are restored: the turn of any other entry replaces nothing,
\* wherever it is in the range order
EntriesOf(text) ==
    LET amp == ReplaceEntity(text, 1)
    IN {k \in OtherEntries :
          \/ Contains(text, replacements[k].entity)
          \/ Contains(amp, replacements[k].entity)}

\* html_converter.go 221: the range over a map takes the entries in an
\* order the run chooses; an order is told by the entries it takes before
\* "&amp;"
RangeOrders(text) == SUBSET EntriesOf(text)

\* html_converter.go 220-223, the entries of before taken ahead of "&amp;"
RestoreNamed(text, before) ==
    ReplaceEntities(
        ReplaceEntity(ReplaceEntities(text, before), 1),
        EntriesOf(text) \ before)

HexDigits == Digits \cup {"a", "b", "c", "d", "e", "f"}
                    \cup {"A", "B", "C", "D", "E", "F"}

\* the digit characters at the head of a text that are in a set
RECURSIVE DigitRun(_, _)
DigitRun(text, digits) ==
    IF text = <<>> \/ Head(text) \notin digits THEN <<>>
    ELSE <<Head(text)>> \o DigitRun(Tail(text), digits)

DigitValue(c) ==
    CASE c \in {"a", "A"} -> 10
      [] c \in {"b", "B"} -> 11
      [] c \in {"c", "C"} -> 12
      [] c \in {"d", "D"} -> 13
      [] c \in {"e", "E"} -> 14
      [] c \in {"f", "F"} -> 15
      [] OTHER -> CHOOSE n \in 0..9 : DigitChars[n + 1] = c

\* fmt.Sscanf with %d (base 10) and %x (base 16)
RECURSIVE Sscanf(_, _)
Sscanf(digits, base) ==
    IF digits = <<>> THEN 0
    ELSE Sscanf(SubSeq(digits, 1, Len(digits) - 1), base) * base
         + DigitValue(digits[Len(digits)])

\* string(rune(code)): the characters of the model that have a code, and
\* a name for every other code point
Rune(code) ==
    CASE code = 34 -> Quote
      [] code = 38 -> "&"
      [] code = 39 -> "'"
      [] code = 59 -> ";"
      [] code = 60 -> "<"
      [] code = 62 -> ">"
      [] code = 65 -> "A"
      [] OTHER -> "U+" \o ToString(code)

\* the digits of a reference that starts at a position of the text, <<>>
\* if none starts there
RefDigits(text, at, open, digits) ==
    LET run == IF MatchAt(text, at, open, FALSE)
               THEN DigitRun(From(text, at + Len(open)), digits)
               ELSE <<>>
    IN IF MatchAt(text, at + Len(open) + Len(run), <<";">>, FALSE)
          THEN run ELSE <<>>

\* html_converter.go 226-255: `&#(\d+);` and `&#x([0-9a-fA-F]+);`
RECURSIVE ReplaceRefs(_, _, _, _)
ReplaceRefs(text, open, digits, base) ==
    LET starts == {at \in DOMAIN text :
                      RefDigits(text, at, open, digits) # <<>>}
        run == RefDigits(text, Min(starts), open, digits)
    IN IF starts = {} THEN text
       ELSE Upto(text, Min(starts))
            \o <<Rune(Sscanf(run, base))>>
            \o ReplaceRefs(From(text, Min(starts) + Len(open) + Len(run) + 1),
                           open, digits, base)

\* html_converter.go 201-258, the range taking the entries of before ahead
\* of "&amp;"
restoreHTMLEntity(text, before) ==
    ReplaceRefs(ReplaceRefs(RestoreNamed(text, before),
                            <<"&", "#">>, Digits, 10),
                <<"&", "#", "x">>, HexDigits, 16)

\* html_converter.go 19-25
NewHTMLConverter(text) ==
    [text |-> text,
     stripDecorationTag |-> FALSE,
     illustCurrentURL |-> <<>>,
     illustGrepPattern |-> "default"]

\* html_converter.go 60-65
Decorated(hh, text) ==
    IF ~hh.stripDecorationTag
       THEN sToAozora(iToAozora(bToAozora(text)))
       ELSE text

\* html_converter.go 47-74: the passes ahead of the entity restoration
BeforeRestore(hh, preHTML) ==
    deleteTag(emToSesame(imgToAozora(hh,
        Decorated(hh, rubyToAozora(pToAozora(
            IF ~preHTML THEN brToAozora(hh.text) ELSE hh.text))))))

\* html_converter.go 46-80: what ToAozora can return, one text for every
\* order the range of restoreHTMLEntity can take
ToAozora(hh, preHTML) ==
    LET text == BeforeRestore(hh, preHTML)
    IN {restoreHTMLEntity(text, before) : before \in RangeOrders(text)}

(***************************************************************************)
(* The texts given to the converter.                                       *)
(***************************************************************************)
\* the pieces of a text with line breaks
MaxBreakPieces == 2

\* the pieces of a text with ruby spans
MaxRubyPieces == 2

\* the pieces of a text with reserved characters
MaxEntityPieces == 2

\* the tags of a text with decoration tags
MaxDecorationTags == 4

\* the sequences of at most n elements of a set
UpTo(S, n) == UNION {[1..k -> S] : k \in 0..n}

RECURSIVE Flatten(_)
Flatten(pieces) ==
    IF pieces = <<>> THEN <<>>
    ELSE Head(pieces) \o Flatten(Tail(pieces))

Br == <<"b", "r">>

BreakTags ==
    {Tag(Br), Tag(Br \o <<"/">>), Tag(Br \o <<" ", "/">>), Tag(<<"B", "R">>)}

BreakPieces == BreakTags \cup {<<"kan">>, <<NL>>, <<CR, NL>>}

BreakSources == {Flatten(ps) : ps \in UpTo(BreakPieces, MaxBreakPieces)}

Rb == <<"r", "b">>

Rp == <<"r", "p">>

Rt == <<"r", "t">>

RubyName == <<"r", "u", "b", "y">>

\* a ruby span: its base and gloss, with or without <rt>, <rp> and <rb>,
\* in lower or upper case
RubyMarkup(sp) ==
    LET rp(c) == IF sp.rp THEN Tag(Rp) \o <<c>> \o CloseTag(Rp) ELSE <<>>
        base == IF sp.rb THEN Tag(Rb) \o sp.base \o CloseTag(Rb) ELSE sp.base
        span == Tag(RubyName)
                \o base
                \o (IF sp.rt
                       THEN rp("(") \o Tag(Rt) \o sp.gloss \o CloseTag(Rt)
                            \o rp(")")
                       ELSE <<>>)
                \o CloseTag(RubyName)
    IN IF sp.upper
          THEN [k \in DOMAIN span |->
                  IF span[k] \in Range(LowerChars)
                     THEN ToUpperChar(span[k]) ELSE span[k]]
          ELSE span

RubySpans ==
    {sp \in [kind : {"span"}, base : {<<"kan">>}, gloss : {<<"kana">>},
             rt : BOOLEAN, rp : BOOLEAN, rb : BOOLEAN, upper : BOOLEAN] :
        /\ sp.upper => sp.rt /\ ~sp.rp /\ ~sp.rb
        /\ ~sp.rt => ~sp.rp /\ ~sp.rb}

PlainPieces == {[kind |-> "text", text |-> <<"kan">>]}

RubyPieces == RubySpans \cup PlainPieces

RubyPieceText(piece) ==
    IF piece.kind = "span" THEN RubyMarkup(piece) ELSE piece.text

RubyText(ps) == Flatten([k \in DOMAIN ps |-> RubyPieceText(ps[k])])

RubySources == {RubyText(ps) : ps \in UpTo(RubyPieces, MaxRubyPieces)}

ReservedChars == {"&", "<", ">", Quote, "'"}

EntityPieces ==
    {<<c>> : c \in ReservedChars}
        \cup {<<"l", "t", ";">>, <<"#", "6", "5", ";">>}

\* the encoding of the reserved characters: "&" first, then the others
Encode(str) ==
    LET amp == ReplaceAll(str, <<"&">>, Entity(<<"a", "m", "p">>), FALSE)
        lt == ReplaceAll(amp, <<"<">>, Entity(<<"l", "t">>), FALSE)
        gt == ReplaceAll(lt, <<">">>, Entity(<<"g", "t">>), FALSE)
        quot == ReplaceAll(gt, <<Quote>>, Entity(<<"q", "u", "o", "t">>),
                           FALSE)
    IN ReplaceAll(quot, <<"'">>, Entity(<<"a", "p", "o", "s">>), FALSE)

ReservedStrings == {Flatten(ps) : ps \in UpTo(EntityPieces, MaxEntityPieces)}

EntitySources == {Encode(str) : str \in ReservedStrings}

DecorationNames == {"b", "i", "s"}

\* a text with decoration tags: the tags of one name, opening or closing
\* in any order, in lower or upper case, each followed by a character
Decorations ==
    [name : DecorationNames, upper : BOOLEAN,
     tags : UpTo({"open", "close"}, MaxDecorationTags)]

DecorationTag(d, k) ==
    LET name == IF d.upper THEN <<ToUpperChar(d.name)>> ELSE <<d.name>>
    IN IF d.tags[k] = "open" THEN Tag(name) ELSE CloseTag(name)

DecorationText(d) ==
    Flatten([k \in DOMAIN d.tags |-> DecorationTag(d, k) \o <<"kan">>])

DecorationSources == {DecorationText(d) : d \in Decorations}

Sources == BreakSources \cup RubySources \cup EntitySources

(***************************************************************************)
(* A client of the converter: it makes a converter for a text, may set     *)
(* the decoration flag, calls its functions and may convert what ToAozora  *)
(* returned once more.                                                     *)
(***************************************************************************)
Called(fn, preHTML, value) ==
    [fn |-> fn,
     text |-> h.text,
     preHTML |-> preHTML,
     stripDecorationTag |-> h.stripDecorationTag,
     value |-> value]

\* the client may call fn: it calls one function, MaxCalls times at most
MayCall(fn) ==
    /\ h # NoConverter
    /\ Len(convLog) < MaxCalls
    /\ convLog # <<>> => convLog[Len(convLog)].fn = fn

\* html_converter.go 41-43
SetStripDecorationTag ==
    /\ h # NoConverter
    /\ convLog = <<>>
    /\ \E strip \in BOOLEAN :
          /\ strip # h.stripDecorationTag
          /\ h' = [h EXCEPT !.stripDecorationTag = strip]
    /\ UNCHANGED <<convLog, dlVars, tocVars>>

\* html_converter.go 83-91
CallBrToAozora ==
    /\ MayCall("brToAozora")
    /\ convLog' = Append(convLog, Called("brToAozora", FALSE,
                                         brToAozora(h.text)))
    /\ UNCHANGED <<h, dlVars, tocVars>>

\* html_converter.go 100-131
CallRubyToAozora ==
    /\ MayCall("rubyToAozora")
    /\ convLog' = Append(convLog, Called("rubyToAozora", FALSE,
                                         rubyToAozora(h.text)))
    /\ UNCHANGED <<h, dlVars, tocVars>>

\* html_converter.go 134-140
CallBToAozora ==
    /\ MayCall("bToAozora")
    /\ convLog' = Append(convLog, Called("bToAozora", FALSE,
                                         bToAozora(h.text)))
    /\ UNCHANGED <<h, dlVars, tocVars>>

\* html_converter.go 143-149
CallIToAozora ==
    /\ MayCall("iToAozora")
    /\ convLog' = Append(convLog, Called("iToAozora", FALSE,
                                         iToAozora(h.text)))
    /\ UNCHANGED <<h, dlVars, tocVars>>

\* html_converter.go 152-158
CallSToAozora ==
    /\ MayCall("sToAozora")
    /\ convLog' = Append(convLog, Called("sToAozora", FALSE,
                                         sToAozora(h.text)))
    /\ UNCHANGED <<h, dlVars, tocVars>>

\* html_converter.go 201-258
CallRestoreHTMLEntity ==
    /\ MayCall("restoreHTMLEntity")
    /\ \E before \in RangeOrders(h.text) :
          convLog' = Append(convLog,
                            Called("restoreHTMLEntity", FALSE,
                                   restoreHTMLEntity(h.text, before)))
    /\ UNCHANGED <<h, dlVars, tocVars>>

\* html_converter.go 46-80
CallToAozora ==
    /\ MayCall("ToAozora")
    /\ \E preHTML \in BOOLEAN :
          \E value \in ToAozora(h, preHTML) :
             convLog' = Append(convLog, Called("ToAozora", preHTML, value))
    /\ UNCHANGED <<h, dlVars, tocVars>>

\* html_converter.go 19-25, 41-43: a converter for what the last call of
\* ToAozora returned, with the same decoration flag
ConvertAgain ==
    /\ MayCall("ToAozora")
    /\ convLog # <<>>
    /\ h.text # convLog[Len(convLog)].value
    /\ h' = [NewHTMLConverter(convLog[Len(convLog)].value) EXCEPT
               !.stripDecorationTag = h.stripDecorationTag]
    /\ UNCHANGED <<convLog, dlVars, tocVars>>

InitConv ==
    /\ result = EmptyResult
    /\ opts = DefaultOptions
    /\ disk = <<>>
    /\ pc = "idle"
    /\ i = 0
    /\ failedChapters = 0
    /\ allChapterContents = <<>>
    /\ ScrapeIdle
    /\ fetchLog = <<>>
    /\ paced = TRUE
    /\ SaveIdle
    /\ saveCalls = <<>>
    /\ progress = 0
    /\ ret = NotReturned
    /\ TocIdle
    /\ h \in {NewHTMLConverter(text) : text \in Sources}
    /\ convLog = <<>>

NextConv ==
    \/ SetStripDecorationTag
    \/ CallBrToAozora
    \/ CallRubyToAozora
    \/ CallBToAozora
    \/ CallIToAozora
    \/ CallSToAozora
    \/ CallRestoreHTMLEntity
    \/ CallToAozora
    \/ ConvertAgain

SpecConv == InitConv /\ [][NextConv]_vars

\* the client with a converter for one of texts
ConverterFor(texts) ==
    /\ result = EmptyResult
    /\ opts = DefaultOptions
    /\ disk = <<>>
    /\ pc = "idle"
    /\ i = 0
    /\ failedChapters = 0
    /\ allChapterContents = <<>>
    /\ ScrapeIdle
    /\ fetchLog = <<>>
    /\ paced = TRUE
    /\ SaveIdle
    /\ saveCalls = <<>>
    /\ progress = 0
    /\ ret = NotReturned
    /\ TocIdle
    /\ h \in {NewHTMLConverter(text) : text \in texts}
    /\ convLog = <<>>

\* the client on the texts with ruby spans
InitRuby == ConverterFor(RubySources)

\* the client converts ruby spans, by rubyToAozora or by ToAozora
NextRuby ==
    \/ SetStripDecorationTag
    \/ CallRubyToAozora
    \/ CallToAozora

SpecRuby == InitRuby /\ [][NextRuby]_vars

\* the client on the texts with decoration tags
InitDecoration == ConverterFor(DecorationSources)

\* the client converts decoration tags, by the function of a tag or by
\* ToAozora
NextDecoration ==
    \/ SetStripDecorationTag
    \/ CallBToAozora
    \/ CallIToAozora
    \/ CallSToAozora
    \/ CallToAozora

SpecDecoration == InitDecoration /\ [][NextDecoration]_vars

(***************************************************************************)
(* Properties of the HTML converter, under SpecConv.                       *)
(***************************************************************************)
Calls(fn) == {k \in DOMAIN convLog : convLog[k].fn = fn}

\* the call after call k is ToAozora, with the same flags, on what call k
\* of ToAozora returned
Reconverted(k) ==
    /\ k \in Calls("ToAozora")
    /\ k + 1 \in Calls("ToAozora")
    /\ convLog[k + 1].text = convLog[k].value
    /\ convLog[k + 1].preHTML = convLog[k].preHTML
    /\ convLog[k + 1].stripDecorationTag = convLog[k].stripDecorationTag

\* a text with no tag and no entity
NoMarkup(text) == "<" \notin Range(text) /\ "&" \notin Range(text)

\* C16 as the specification states it: ToAozora on a text that ToAozora
\* returned, and that holds no tag and no entity, returns that text.
C16_Idempotent ==
    \A k \in DOMAIN convLog :
        Reconverted(k) /\ NoMarkup(convLog[k].value) =>
            convLog[k + 1].value = convLog[k].value

\* what the specification gives for a piece of a text with ruby spans: the
\* annotation of base and gloss for a span with a gloss, the base alone
\* for a span without, and a character outside the spans as it is
RubyAnnotation(piece) ==
    IF piece.kind = "span"
       THEN IF piece.rt
               THEN <<"BAR">> \o piece.base \o <<"LQ">> \o piece.gloss
                    \o <<"RQ">>
               ELSE piece.base
       ELSE piece.text

RubyCases ==
    {[text |-> RubyText(ps),
      annotated |-> Flatten([k \in DOMAIN ps |-> RubyAnnotation(ps[k])])] :
        ps \in UpTo(RubyPieces, MaxRubyPieces)}

\* for every text of ruby pieces, what the specification gives for it
RubyAnnotated ==
    [text \in RubySources |->
        {c.annotated : c \in {d \in RubyCases : d.text = text}}]

Encoded == {[text |-> Encode(str), str |-> str] : str \in ReservedStrings}

\* C18 as the specification states it: restoreHTMLEntity on the encoding
\* of a string returns the string.
C18_RoundTrip ==
    \A k \in Calls("restoreHTMLEntity") :
        \A e \in Encoded :
            convLog[k].text = e.text => convLog[k].value = e.str

\* two calls of one function on one text under one configuration
SameCall(j, k) ==
    /\ convLog[j].fn = convLog[k].fn
    /\ convLog[j].text = convLog[k].text
    /\ convLog[j].preHTML = convLog[k].preHTML
    /\ convLog[j].stripDecorationTag = convLog[k].stripDecorationTag

\* C19 as the specification states it: two calls of restoreHTMLEntity, or
\* of ToAozora, on one text under one configuration return the same text.
C19_Deterministic ==
    \A j, k \in Calls("restoreHTMLEntity") \cup Calls("ToAozora") :
        SameCall(j, k) => convLog[j].value = convLog[k].value

\* what the specification gives for a piece of a text with line breaks: a
\* line feed for a tag, nothing for literal line ends, a character as it is
BreakNormalized(piece) ==
    IF piece \in BreakTags THEN <<NL>>
    ELSE IF piece \in {<<NL>>, <<CR, NL>>} THEN <<>>
    ELSE piece

\* with the pass skipped the literal line ends stay, and the tags are
\* dropped by deleteTag
BreakSkipped(piece) == IF piece \in BreakTags THEN <<>> ELSE piece

BreakCases ==
    {[text |-> Flatten(ps),
      normalized |-> Flatten([k \in DOMAIN ps |-> BreakNormalized(ps[k])]),
      skipped |-> Flatten([k \in DOMAIN ps |-> BreakSkipped(ps[k])])] :
        ps \in UpTo(BreakPieces, MaxBreakPieces)}

\* C20 as the specification states it: brToAozora returns the text without
\* its literal line ends and with one line feed for every <br>, <br/>,
\* <br /> in either case; ToAozora does the same with preHTML false and
\* leaves the literal line ends alone with preHTML true.
C20_LineBreaks ==
    \A k \in Calls("brToAozora") \cup Calls("ToAozora") :
        \A c \in BreakCases :
            convLog[k].text = c.text =>
                convLog[k].value =
                    IF convLog[k].fn = "ToAozora" /\ convLog[k].preHTML
                       THEN c.skipped ELSE c.normalized

\* the word of the annotations a decoration function writes
DecorationWord(name) ==
    CASE name = "b" -> "BOLD"
      [] name = "i" -> "ITALIC"
      [] name = "s" -> "STRIKE"

\* what the specification gives for a text with decoration tags under the
\* function of a tag name: an opening annotation for every opening tag of
\* that name and a closing one for every closing tag, where the tag was,
\* and every other tag as it is
DecorationRewritten(d, name) ==
    Flatten([k \in DOMAIN d.tags |->
               (IF d.name # name THEN DecorationTag(d, k)
                ELSE IF d.tags[k] = "open"
                     THEN Note(<<DecorationWord(name)>>)
                     ELSE Note(<<DecorationWord(name), "END">>))
               \o <<"kan">>])

\* the tags a text with decoration tags was made of
DecorationOf ==
    [text \in DecorationSources |->
        CHOOSE d \in Decorations : DecorationText(d) = text]

DecorationCalls ==
    {k \in DOMAIN convLog :
        convLog[k].fn \in {"bToAozora", "iToAozora", "sToAozora"}}

\* the tag name of a decoration function
CalledName(fn) ==
    CASE fn = "bToAozora" -> "b"
      [] fn = "iToAozora" -> "i"
      [] fn = "sToAozora" -> "s"

\* C21: bToAozora, iToAozora and sToAozora, on a text with tags of one
\* name in any order and nesting and in either case, return the text with
\* one opening annotation in the place of every opening tag of their name
\* and one closing annotation in the place of every closing tag, and leave
\* the tags of another name alone.
C21_EachTagRewritten ==
    \A k \in DecorationCalls :
        convLog[k].text \in DOMAIN DecorationOf =>
            convLog[k].value =
                DecorationRewritten(DecorationOf[convLog[k].text],
                                    CalledName(convLog[k].fn))

\* bToAozora has returned for the nested <b>a<b>b</b>c</b> with two opening
\* and two closing annotations
C21_NestedTags ==
    \E k \in Calls("bToAozora") :
           /\ convLog[k].text =
                 DecorationText([name |-> "b", upper |-> FALSE,
                                 tags |-> <<"open", "open", "close", "close">>])
           /\ convLog[k].value =
                 Note(<<"BOLD">>) \o <<"kan">> \o Note(<<"BOLD">>) \o <<"kan">>
                 \o Note(<<"BOLD", "END">>) \o <<"kan">>
                 \o Note(<<"BOLD", "END">>) \o <<"kan">>

(***************************************************************************)
(* The illustration setting of the converter: a client that sets it and    *)
(* converts img tags.                                                      *)
(***************************************************************************)
\* the pieces of a text with img tags
MaxIllustPieces == 2

\* the calls of the client of the illustration setting
MaxIllustCalls == 3

BaseURL == <<"h", "t", "t", "p", ":", "/", "/", "h", "/", "d", "/">>

\* what the client gives as currentURL and as grepPattern
CurrentURLs == {<<>>, BaseURL}

GrepPatterns == {"", DefaultPattern, GrouplessPattern, BrokenPattern}

\* a src relative to the page, one from the root, one with a scheme
ImgSrcs ==
    {<<"a">>, <<"/", "a">>,
     <<"h", "t", "t", "p", ":", "/", "/", "o", "/", "a">>}

ImgTag(src) ==
    <<"<", "i", "m", "g", " ">> \o SrcAttr \o src \o <<Quote, ">">>

IllustPieces == {ImgTag(src) : src \in ImgSrcs} \cup {<<"kan">>}

IllustSources == {Flatten(ps) : ps \in UpTo(IllustPieces, MaxIllustPieces)}

\* regexp.Compile, html_converter.go 30
CompileFails(grepPattern) == grepPattern = BrokenPattern

\* html_converter.go 30-33: "invalid grep pattern: %w"
ErrInvalidGrepPattern == [kind |-> "invalid grep pattern"]

\* the settings of a converter
IllustSetting(hh) ==
    [illustCurrentURL |-> hh.illustCurrentURL,
     illustGrepPattern |-> hh.illustGrepPattern]

\* html_converter.go 27-38: the converter after the call; the base URL is
\* assigned first, the pattern only if it is given and compiles
SetIllustSettingTo(hh, currentURL, grepPattern) ==
    [hh EXCEPT !.illustCurrentURL = currentURL,
               !.illustGrepPattern =
                   IF grepPattern = "" \/ CompileFails(grepPattern)
                      THEN @ ELSE grepPattern]

\* html_converter.go 27-38: what the call returns
SetIllustSettingErr(grepPattern) ==
    IF grepPattern # "" /\ CompileFails(grepPattern)
       THEN ErrInvalidGrepPattern ELSE NoError

IllustCalled(fn, currentURL, grepPattern, err, value) ==
    [fn |-> fn,
     currentURL |-> currentURL,
     grepPattern |-> grepPattern,
     err |-> err,
     setting |-> IllustSetting(h),
     value |-> value]

\* html_converter.go 27-38
SetIllustSetting ==
    /\ h # NoConverter
    /\ Len(convLog) < MaxIllustCalls
    /\ \E currentURL \in CurrentURLs, grepPattern \in GrepPatterns :
          /\ h' = SetIllustSettingTo(h, currentURL, grepPattern)
          /\ convLog' = Append(convLog,
                 IllustCalled("SetIllustSetting", currentURL, grepPattern,
                              SetIllustSettingErr(grepPattern), <<>>))
    /\ UNCHANGED <<dlVars, tocVars>>

\* html_converter.go 161-186
CallImgToAozora ==
    /\ h # NoConverter
    /\ Len(convLog) < MaxIllustCalls
    /\ convLog' = Append(convLog,
           IllustCalled("imgToAozora", <<>>, "", NoError,
                        imgToAozora(h, h.text)))
    /\ UNCHANGED <<h, dlVars, tocVars>>

InitIllust ==
    /\ result = EmptyResult
    /\ opts = DefaultOptions
    /\ disk = <<>>
    /\ pc = "idle"
    /\ i = 0
    /\ failedChapters = 0
    /\ allChapterContents = <<>>
    /\ ScrapeIdle
    /\ fetchLog = <<>>
    /\ paced = TRUE
    /\ SaveIdle
    /\ saveCalls = <<>>
    /\ progress = 0
    /\ ret = NotReturned
    /\ TocIdle
    /\ h \in {NewHTMLConverter(text) : text \in IllustSources}
    /\ convLog = <<>>

NextIllust ==
    \/ SetIllustSetting
    \/ CallImgToAozora

SpecIllust == InitIllust /\ [][NextIllust]_vars

(***************************************************************************)
(* Properties of the illustration setting, under SpecIllust.               *)
(***************************************************************************)
\* call k is a SetIllustSetting that returned an error
FailedSetting(k) ==
    /\ k \in DOMAIN convLog
    /\ convLog[k].fn = "SetIllustSetting"
    /\ convLog[k].err # NoError

\* the setting call k left behind: the one the next call found, or the one
\* of the converter if call k is the last
SettingAfter(k) ==
    IF k < Len(convLog) THEN convLog[k + 1].setting ELSE IllustSetting(h)

\* C22: a SetIllustSetting that returns an error leaves the base URL and
\* the pattern of the converter as they were before the call, and an
\* imgToAozora after it returns what it returns with the setting the
\* converter had before the call.
C22_FailedCallChangesNothing ==
    \A k \in DOMAIN convLog :
        FailedSetting(k) =>
            /\ SettingAfter(k) = convLog[k].setting
            /\ (k < Len(convLog) /\ convLog[k + 1].fn = "imgToAozora")
                   => convLog[k + 1].value =
                          imgToAozora(
                              [h EXCEPT
                                  !.illustCurrentURL =
                                      convLog[k].setting.illustCurrentURL,
                                  !.illustGrepPattern =
                                      convLog[k].setting.illustGrepPattern],
                              h.text)

\* a SetIllustSetting has returned an error and imgToAozora was called
\* after it
C22_ConvertedAfterFailedCall ==
    \E k \in DOMAIN convLog :
        /\ FailedSetting(k)
        /\ k < Len(convLog)
        /\ convLog[k + 1].fn = "imgToAozora"

(***************************************************************************)
(* The order of the steps of downloadRensai, its backoff, its progress     *)
(* values and its aborted runs, under Spec.                                *)
(***************************************************************************)
\* the individual save of the chapter at i is under way or has just returned
InChapterSave == pc \in {"save", "saveReturned"} /\ saveFor = "chapter"

\* the calls of ScrapeChapterWithHTML that returned without error
FetchedChapters == {k \in DOMAIN fetchLog : fetchLog[k].outcome = "ok"}

\* C23: when the save of a fetched chapter is under way, the failure
\* counter has been reset, the body of the chapter is the last of the
\* accumulator and the pacing sleep has been done if and only if the
\* chapter is not the last; no fetch is under way during a save and no save
\* during a fetch, and a fetch starts only when every chapter fetched
\* before has been through its save.
C23_StepsInOrder ==
    /\ InChapterSave =>
          /\ failedChapters = 0
          /\ allChapterContents # <<>>
          /\ allChapterContents[Len(allChapterContents)] =
                formatChapterContentForCombined(
                    result.Chapters[i + 1].Title,
                    result.Chapters[i + 1].Content)
          /\ paced <=> i < totalChapters - 1
          /\ fetchLog[Len(fetchLog)] = [idx |-> i, outcome |-> "ok"]
          /\ saveCalls[Len(saveCalls)] = ChapterFileName(result, i)
          /\ Len(saveCalls) = Cardinality(FetchedChapters)
    /\ pc \in {"save", "saveReturned"} => ScrapeIdle
    /\ pc \in {"scrape", "scrapeReturned"} =>
          /\ SaveIdle
          /\ fetchLog[Len(fetchLog)].idx = i
          /\ opts.createTxt =>
                Len(saveCalls) =
                    Cardinality({k \in FetchedChapters : fetchLog[k].idx < i})

\* a second fetched chapter, not the last, is being saved after its sleep
C23_SecondChapterInSave ==
    /\ InChapterSave
    /\ pc = "save"
    /\ saveAttempts > 0
    /\ paced
    /\ Len(allChapterContents) >= 2
    /\ i < totalChapters - 1

\* C24: in a call of ScrapeChapterWithHTML the k-th sleep is k units long,
\* there is one sleep between two attempts and none before the first
\* attempt or after the last, so no sleep follows a success or the third
\* failure, and every sleep comes after a failed attempt.
C24_LinearBackoff ==
    /\ fetchSleeps =
          [k \in 1..Len(fetchSleeps) |-> k * BackoffUnitSeconds]
    /\ Len(fetchSleeps) = IF attempts = 0 THEN 0 ELSE attempts - 1
    /\ Len(fetchSleeps) <= retry
    /\ attempts <= maxRetries
    /\ (pc = "scrapeReturned" /\ scraped.err # NoError) =>
          /\ attempts = maxRetries
          /\ Len(fetchSleeps) = maxRetries - 1

\* a call has returned without error at its third attempt, after sleeps of
\* one and of two units
C24_ThirdAttemptSucceeded ==
    /\ pc = "scrapeReturned"
    /\ scraped.err = NoError
    /\ attempts = 3
    /\ fetchSleeps = <<BackoffUnitSeconds, 2 * BackoffUnitSeconds>>

\* the individual save of the chapter at i has returned an error
ChapterSaveGaveUp ==
    /\ pc = "saveReturned"
    /\ saveFor = "chapter"
    /\ saveErr # NoError

\* C25: when the save of a fetched chapter has failed on all its attempts,
\* the step that follows goes to the next chapter, or to the end of the
\* loop after the last one; it returns no error, the failure counter is
\* and stays 0, and the accumulator keeps the body of the chapter as its
\* last element.
C25_SaveFailureNotFatal ==
    [][ChapterSaveGaveUp =>
           /\ saveAttempts = saveMaxRetries
           /\ i' = i + 1
           /\ pc' = IF i + 1 < totalChapters THEN "chapter" ELSE "afterLoop"
           /\ ret' = NotReturned
           /\ failedChapters = 0
           /\ failedChapters' = 0
           /\ allChapterContents' = allChapterContents
           /\ allChapterContents[Len(allChapterContents)] =
                 formatChapterContentForCombined(
                     result.Chapters[i + 1].Title,
                     result.Chapters[i + 1].Content)]_vars

\* the next chapter is being fetched after a chapter save that gave up
C25_FetchAfterFailedSave ==
    /\ pc = "scrape"
    /\ FailedChapterSaves # {}
    /\ failedChapters = 0
    /\ Len(allChapterContents) = Cardinality(FetchedChapters)
    /\ ret = NotReturned

\* the progress value emitted last is a percentage, and it is 100 only
\* when the run has returned nil with every chapter gone through
ProgressInRange ==
    /\ progress \in 0..100
    /\ progress = 100 =>
          /\ pc = "done"
          /\ ret = NoError
          /\ i = totalChapters

\* C26: every progress value of a run of downloadRensai is in 0..100, no
\* value is below the one emitted before it, and 100 is emitted only by a
\* run that returns without error, after its last chapter.
C26_Progress ==
    []ProgressInRange /\ [][progress' >= progress]_vars

\* a run of several chapters has gone over 90 to 100 with its combined file
C26_Completed ==
    /\ pc = "done"
    /\ progress = 100
    /\ totalChapters >= 2
    /\ saveCalls # <<>>
    /\ saveCalls[Len(saveCalls)] = AllName

\* the chapters before i the loop went past without a call of
\* ScrapeChapterWithHTML: shouldSkipEpisode was true for them
SkippedChapters ==
    {k \in 0..(i - 1) : \A e \in DOMAIN fetchLog : fetchLog[e].idx # k}

\* the skipped chapters whose text file was written by this run
SkippedForOwnFile ==
    {k \in SkippedChapters :
        /\ opts.createTxt
        /\ disk[TxtPath(ChapterFileName(result, k))].written}

\* C27 as the specification states it: the chapters at two positions of
\* the work have different file identifiers, and no chapter is skipped for
\* a file the run itself wrote.
C27_DistinctIdentifiers ==
    /\ \A j, k \in DOMAIN result.Chapters :
          j # k => ChapterFileName(result, j - 1) # ChapterFileName(result, k - 1)
    /\ SkippedForOwnFile = {}

\* the second chapter of a list in descending order was skipped for the
\* file the run wrote for the first
C27_SkippedForOwnFile ==
    /\ pc = "done"
    /\ ret = NoError
    /\ 1 \in SkippedForOwnFile
    /\ ChapterFileName(result, 0) = ChapterFileName(result, 1)

(***************************************************************************)
(* The walk over the index pages without an end: beyond MaxVisits pages    *)
(* the loop of scrapeChapterList goes on as before, and the pages,         *)
(* requests and chapters beyond the bound are no longer recorded.          *)
(***************************************************************************)
\* scraper.go 205-235: the next page is fetched, beyond the recorded pages
WalkFetchOn ==
    /\ tocPc = "fetch"
    /\ Len(visited) >= MaxVisits
    /\ LET nextURL == NextPageURL(IndexURL(site.host), pageDoc.next.href)
       IN  \/ /\ tocErr' = ErrNextPage(ErrTransport)
              /\ result' = [result EXCEPT !.Error = tocErr']
              /\ tocPc' = "returned"
              /\ pageDoc' = pageDoc
           \/ /\ pageDoc' = Doc(site, PageAt(site, nextURL))
              /\ tocPc' = "collectOn"
              /\ UNCHANGED <<result, tocErr>>
    /\ UNCHANGED <<convVars, opts, disk, pc, i, failedChapters,
                   allChapterContents, scrapeVars, fetchLog, paced, saveVars,
                   saveCalls, progress, ret, site, visited, requests>>

\* scraper.go 168-203 and 238-242: the loop body on a page beyond the
\* recorded ones; with no next link the loop ends
WalkCollectOn ==
    /\ tocPc = "collectOn"
    /\ IF NextLinkMissing(pageDoc.next)
       THEN /\ tocErr' = WalkResult(result.Chapters)
            /\ result' = [result EXCEPT !.Error = tocErr']
            /\ tocPc' = "returned"
       ELSE /\ tocPc' = "fetch"
            /\ UNCHANGED <<result, tocErr>>
    /\ UNCHANGED <<convVars, opts, disk, pc, i, failedChapters,
                   allChapterContents, scrapeVars, fetchLog, paced, saveVars,
                   saveCalls, progress, ret, site, pageDoc, visited, requests>>

NextTocOn ==
    \/ StartScraping
    \/ WalkCollect
    \/ WalkFetch
    \/ WalkFetchOn
    \/ WalkCollectOn
    \/ DownloadNovel

\* the goroutine of DownloadNovel is not starved: a step that can be taken
\* is taken, and a fetch returns
SpecTocOn == InitToc /\ [][NextTocOn]_vars /\ WF_vars(NextTocOn)

\* C28 as the specification states it: scrapeChapterList returns in the end,
\* whatever the next links of the index pages are.
C28_WalkReturns ==
    <>(tocPc \in {"returned", "done"})

\* the walk is on a page it has been on, with a next link to follow
C28_PageVisitedAgain ==
    /\ tocPc = "fetch"
    /\ \E j, k \in DOMAIN visited : j < k /\ visited[j] = visited[k]
    /\ ~NextLinkMissing(pageDoc.next)

\* the loop goes past the chapter at i with no call of
\* ScrapeChapterWithHTML: the continue of app.go 156-159
SkipStep == pc = "chapter" /\ i' = i + 1

\* C29: the step that skips a chapter changes neither the failure counter
\* nor the accumulator, does no pacing sleep, calls no fetch and no save and
\* writes no file; so the counter is always the number of failed fetches
\* since the last successful one, skipped chapters between them or not.
C29_SkipChangesNothing ==
    /\ [](failedChapters = TrailingFailed(Handled))
    /\ [][SkipStep =>
             /\ failedChapters' = failedChapters
             /\ allChapterContents' = allChapterContents
             /\ paced' = paced
             /\ fetchLog' = fetchLog
             /\ saveCalls' = saveCalls
             /\ ret' = ret
             /\ UNCHANGED <<scrapeVars, saveVars>>
             /\ \A path \in DOMAIN disk' :
                   disk'[path].written =>
                       path \in DOMAIN disk /\ disk[path] = disk'[path]]_vars

\* the breaker has tripped on three failed fetches with a skipped chapter
\* between them
C29_BreakerOverSkip ==
    /\ Aborted
    /\ Len(fetchLog) >= maxFailures
    /\ \E k \in SkippedChapters :
          /\ fetchLog[Len(fetchLog) - maxFailures + 1].idx < k
          /\ k < fetchLog[Len(fetchLog)].idx

\* the titles handed to saveTextFileWithRetry for the fetched chapters
FetchedFileNames ==
    LET ok == SelectSeq(fetchLog, LAMBDA e : e.outcome = "ok")
    IN  [k \in DOMAIN ok |-> ChapterFileName(result, ok[k].idx)]

\* C30: in a run the breaker has aborted no save of the combined file was
\* called and no combined file written, the progress value 100 of the
\* completion was not emitted, no save is under way, and every chapter
\* fetched before the abort was handed to its individual save, in order.
C30_AbortLeavesChapterFiles ==
    Aborted =>
        /\ \A k \in DOMAIN saveCalls : saveCalls[k] # AllName
        /\ TxtPath(AllName) \notin DOMAIN disk
        /\ progress < 100
        /\ SaveIdle
        /\ opts.createTxt => saveCalls = FetchedFileNames
        /\ ~opts.createTxt => saveCalls = <<>>

\* a run with the combined file asked for was aborted after it had fetched
\* a chapter and written its file
C30_AbortAfterSavedChapter ==
    /\ Aborted
    /\ opts.createCombined
    /\ opts.createTxt
    /\ saveCalls # <<>>
    /\ \E k \in DOMAIN saveCalls : disk[TxtPath(saveCalls[k])].written

====
